---- MODULE Spec2Model ----
(***************************************************************************)
(* Model of the adjuftments reconciliation engine: the spreadsheet        *)
(* (Airtable) expenses table, the bill-splitting service (Splitwise), and *)
(* the internal relational store, driven by the Adjuftments SDK's refresh *)
(* passes.  Every remote call of a pass is one step; a call that the SDK  *)
(* turns into an exception aborts the pass, a call whose failure the SDK  *)
(* swallows (the DELETE helpers) lets the pass go on.                     *)
(*                                                                         *)
(* Money is counted in mills (1/1000 of the currency unit) so that the    *)
(* half-cent arithmetic of split_a_transaction and round(x, 2) are exact. *)
(* A text is the sequence of its " - "-separated segments.                *)
(***************************************************************************)
EXTENDS Integers, Sequences, FiniteSets, TLC

\* ------------------------------------------------------------------ bounds
MaxFaults == 1
MaxPasses == 2
MaxBills == 3
MaxRows == 4
MaxPartner == 1

\* --------------------------------------------------------- program constants
Microsecond == 1
Second == 2 * Microsecond
NoBill == 0
NoRow == NoBill
Owner == 1
Partner == 2
Stranger == Partner + 1
Checking == "chk"
Savings == "sav"
OtherSavings == "sav2"
NoAccount == "none"

\* dates are days: local midnight of day 1 of the current month, of day 1 of
\* the next month, and the day the dashboard runs on
ThisMonth == 10
NextMonth == ThisMonth + 10
Today == ThisMonth + 2

Workers == {1, 2}
RowIds == 1..MaxRows
BillIds == 1..MaxBills

\* a bill id the user typed that no bill has
DanglingBill == MaxBills + 5

\* ------------------------------------------------------------ small helpers
Upd(f, k, v) == [x \in (DOMAIN f) \cup {k} |-> IF x = k THEN v ELSE f[x]]

Del(f, k) == [x \in (DOMAIN f) \ {k} |-> f[x]]

RECURSIVE SetToSeq(_)
SetToSeq(S) ==
    IF S = {} THEN <<>>
    ELSE LET m == CHOOSE x \in S : \A y \in S : x <= y
         IN <<m>> \o SetToSeq(S \ {m})

Abs(x) == IF x < 0 THEN -x ELSE x

\* round(x, 2): to the nearest cent (10 mills), ties to the even cent
Round2(x) ==
    LET lo == x - (x % 10)
        r == x % 10
    IN IF r < 5 THEN lo
       ELSE IF r > 5 THEN lo + 10
       ELSE IF (lo \div 10) % 2 = 0 THEN lo ELSE lo + 10

\* ------------------------------------------------------------------- texts
\* str.strip() on the segments of the vocabulary
Strip(s) ==
    CASE s = " Lunch" -> "Lunch"
      [] s = "Lunch " -> "Lunch"
      [] s = " Reimbursement " -> "Reimbursement"
      [] s = " misc " -> "misc"
      [] OTHER -> s

\* str.upper() on the segments of the vocabulary
Upper(s) ==
    CASE s = "Reimbursement" -> "REIMBURSEMENT"
      [] s = "reimbursement" -> "REIMBURSEMENT"
      [] s = "Reimbursements" -> "REIMBURSEMENTS"
      [] s = "Re" -> "RE"
      [] s = "Lunch" -> "LUNCH"
      [] s = "Food" -> "FOOD"
      [] s = "Splitwise" -> "SPLITWISE"
      [] s = "Acme" -> "ACME"
      [] s = "acme" -> "ACME"
      [] s = "Salary" -> "SALARY"
      [] s = "Bank" -> "BANK"
      [] s = "Transfer" -> "TRANSFER"
      [] OTHER -> s

\* Variant of the split that takes no separator, as str.split() does: an
\* empty text has no parts; C19 does not hold of it.
SplitDash_NoSeparator(s) ==
    CASE s = "" -> <<>>
      [] s = " Reimbursement " -> <<"Reimbursement">>
      [] OTHER -> <<s>>

\* s.split("-") on the segments of the vocabulary: never empty
SplitDash(s) ==
    CASE s = "Reimbursement-Bob" -> <<"Reimbursement", "Bob">>
      [] s = "Lunch-Reimbursement" -> <<"Lunch", "Reimbursement">>
      [] s = "Re-imbursement" -> <<"Re", "imbursement">>
      [] s = "To-Home" -> <<"To", "Home">>
      [] OTHER -> <<s>>

\* the part of a segment before its first "-" (the segment itself if none)
DashHead(s) == SplitDash(s)[1]

\* str.lower() on the segments of the vocabulary
Lower(s) ==
    CASE s = "Home" -> "home"
      [] s = "HOME" -> "home"
      [] s = "House" -> "house"
      [] s = "Misc" -> "misc"
      [] s = " misc " -> " misc "
      [] s = "Shared" -> "shared"
      [] s = "Home Share" -> "home share"
      [] s = "House Misc" -> "house misc"
      [] s = "Vacation" -> "vacation"
      [] s = "Bank" -> "bank"
      [] s = "Transfer" -> "transfer"
      [] s = "To" -> "to"
      [] s = "Lunch" -> "lunch"
      [] s = "Acme" -> "acme"
      [] s = "Salary" -> "salary"
      [] s = "Reimbursement" -> "reimbursement"
      [] s = "Bob" -> "bob"
      [] OTHER -> s

\* word in s, on the lower-cased segments of the vocabulary
Contains(s, word) ==
    CASE word = "home" -> s \in {"home", "home share"}
      [] word = "house" -> s \in {"house", "house misc"}
      [] word = "misc" -> s \in {"misc", "house misc"}
      [] word = "share" -> s \in {"shared", "home share"}
      [] OTHER -> FALSE

\* [item.lower().strip() for item in transaction.split("-")]
RECURSIVE split_transaction(_)
split_transaction(transaction) ==
    IF transaction = <<>> THEN <<>>
    ELSE LET parts == SplitDash(Head(transaction))
         IN [k \in 1..Len(parts) |-> Strip(Lower(parts[k]))]
            \o split_transaction(Tail(transaction))

\* description.split(" - "), default prefix for a lone segment, strip, join
parse_adjuftments_description(description, default_string) ==
    LET parsed == IF Len(description) = 1
                  THEN <<default_string>> \o description
                  ELSE description
    IN [i \in 1..Len(parsed) |-> Strip(parsed[i])]

_parse_splitwise_description(description) ==
    parse_adjuftments_description(description, "Splitwise")

\* Variant of categorize_expenses that looks at the category before the
\* text; C18 does not hold of it.
categorize_expenses_CategoryFirst(category, transaction) ==
    IF category \in {"Rent", "Mortgage", "Housing"} THEN "Housing"
    ELSE IF category \in {"Savings", "Savings Spend"} THEN "Savings"
    ELSE IF category \in {"Income", "Interest"} THEN "Income"
    ELSE IF category = "Adjustment" THEN "Adjustment"
    ELSE IF Upper(Strip(DashHead(transaction[1]))) = "REIMBURSEMENT" THEN "Reimbursement"
    ELSE "Expense"

\* AdjuftmentsEncoder.categorize_expenses; indexing an empty split would raise
categorize_expenses(category, transaction) ==
    IF SplitDash(transaction[1]) = <<>> THEN "IndexError"
    ELSE IF Upper(Strip(DashHead(transaction[1]))) = "REIMBURSEMENT" THEN "Reimbursement"
    ELSE IF category \in {"Rent", "Mortgage", "Housing"} THEN "Housing"
    ELSE IF category \in {"Savings", "Savings Spend"} THEN "Savings"
    ELSE IF category \in {"Income", "Interest"} THEN "Income"
    ELSE IF category = "Adjustment" THEN "Adjustment"
    ELSE "Expense"

\* Dashboard._categorize_expenses of adjuftments_v2: the copy of the
\* classification its balance cascade (_balance_df) applies
Dashboard_categorize_expenses(category, transaction) ==
    IF SplitDash(transaction[1]) = <<>> THEN "IndexError"
    ELSE IF Upper(Strip(DashHead(transaction[1]))) = "REIMBURSEMENT" THEN "Reimbursement"
    ELSE IF category \in {"Rent", "Mortgage"} THEN "Housing"
    ELSE IF category \in {"Savings", "Savings Spend"} THEN "Savings"
    ELSE IF category \in {"Income", "Interest"} THEN "Income"
    ELSE IF category = "Adjustment" THEN "Adjustment"
    ELSE "Expense"

\* Dashboard._get_impacted_data of adjuftments: the rows with the expense_type
\* column, which the cascade and the monthly rollup both read
_get_impacted_data(expense_df) ==
    [i \in DOMAIN expense_df |->
        [category |-> expense_df[i].category,
         transaction |-> expense_df[i].transaction,
         expense_type |-> categorize_expenses(expense_df[i].category,
                                              expense_df[i].transaction)]]

\* Dashboard._balance_df of adjuftments_v2: the rows with its expense_type column
_balance_df(dataframe) ==
    [i \in DOMAIN dataframe |->
        [category |-> dataframe[i].category,
         transaction |-> dataframe[i].transaction,
         expense_type |-> Dashboard_categorize_expenses(dataframe[i].category,
                                                        dataframe[i].transaction)]]

Result(kind, value) == [kind |-> kind, value |-> value]

RECURSIVE SumAmounts(_, _)
SumAmounts(table, ids) ==
    IF ids = {} THEN 0
    ELSE LET i == CHOOSE x \in ids : TRUE
         IN table[i].amount + SumAmounts(table, ids \ {i})

\* get_current_months_expenses: the rows with date BETWEEN this_month AND
\* next_month (both ends included) grouped by category, the excluded
\* categories popped, each remaining one with its sum, its share
\* <<amount, total_sum>> and the rows summed; a zero total fails the division
excluded_rows == {"Rent", "Mortgage", "Income", "Savings", "Savings Spend", "Interest"}

get_current_months_expenses(table) ==
    LET response == {i \in DOMAIN table :
                        table[i].date >= ThisMonth /\ table[i].date <= NextMonth}
        RowsOf(c) == {i \in response : table[i].category = c}
        current_categories == {table[i].category : i \in response} \ excluded_rows
        total_sum == SumAmounts(table, UNION {RowsOf(c) : c \in current_categories})
    IN IF response = {} THEN Result("ok", <<>>)
       ELSE IF current_categories # {} /\ total_sum = 0 THEN Result("raise", <<>>)
       ELSE Result("ok", [c \in current_categories |->
                            [amount |-> SumAmounts(table, RowsOf(c)),
                             percent_of_total |-> <<SumAmounts(table, RowsOf(c)), total_sum>>,
                             rows |-> RowsOf(c)]])

\* ---------------------------------------------- balance cascade (adjuftments_v2)
\* Dashboard._apply_checking_expense
_apply_checking_expense(category, amount, transaction) ==
    LET split == split_transaction(transaction)
    IN IF category \notin {"Savings Spend", "Interest"} THEN -amount
       ELSE IF category = "Savings Spend" THEN 0
       ELSE IF Len(split) > 2
       THEN (IF \/ Contains(split[3], "home")
                \/ Contains(split[3], "house")
                \/ Contains(split[3], "misc")
                \/ Contains(split[3], "share")
             THEN 0
             ELSE -amount)
       ELSE -amount

\* Variant of _classify_savings_expense that looks for "misc" before "home"
\* and "house"; C26 does not hold of it.
_classify_savings_expense_MiscFirst(transaction) ==
    LET split == split_transaction(transaction)
    IN IF Len(split) < 3 THEN "UNKNOWN"
       ELSE IF Contains(split[3], "misc") THEN "MISCELLANEOUS"
       ELSE IF Contains(split[3], "home") \/ Contains(split[3], "house") THEN "HOME"
       ELSE IF Contains(split[3], "share") THEN "SHARED"
       ELSE "UNKNOWN"

\* Dashboard._classify_savings_expense
_classify_savings_expense(transaction) ==
    LET split == split_transaction(transaction)
    IN IF Len(split) < 3 THEN "UNKNOWN"
       ELSE IF Contains(split[3], "home") \/ Contains(split[3], "house") THEN "HOME"
       ELSE IF Contains(split[3], "misc") THEN "MISCELLANEOUS"
       ELSE IF Contains(split[3], "share") THEN "SHARED"
       ELSE "UNKNOWN"

SavingsImpact(miscellaneous, home, shared) ==
    [miscellaneous_savings |-> miscellaneous, home_savings |-> home,
     shared_savings |-> shared]

\* Variant of _apply_savings_expense that sends an Interest row without a
\* recognised destination to the miscellaneous bucket as well; C25 does not
\* hold of it.
_apply_savings_expense_UnknownInterest(category, amount, transaction) ==
    LET transaction_type == _classify_savings_expense(transaction)
        checking_transaction == SavingsImpact(0, 0, 0)
        updated_amount == IF category = "Savings" THEN amount ELSE -amount
    IN IF category \notin {"Savings Spend", "Interest", "Savings"}
       THEN checking_transaction
       ELSE IF transaction_type = "HOME" THEN SavingsImpact(0, updated_amount, 0)
       ELSE IF transaction_type = "MISCELLANEOUS" THEN SavingsImpact(updated_amount, 0, 0)
       ELSE IF transaction_type = "SHARED" THEN SavingsImpact(0, 0, updated_amount)
       ELSE SavingsImpact(updated_amount, 0, 0)

\* Dashboard._apply_savings_expense
_apply_savings_expense(category, amount, transaction) ==
    LET transaction_type == _classify_savings_expense(transaction)
        checking_transaction == SavingsImpact(0, 0, 0)
        updated_amount == IF category = "Savings" THEN amount ELSE -amount
        unknown_is_not_checking == category = "Interest"
    IN IF category \notin {"Savings Spend", "Interest", "Savings"}
       THEN checking_transaction
       ELSE IF transaction_type = "HOME" THEN SavingsImpact(0, updated_amount, 0)
       ELSE IF transaction_type = "MISCELLANEOUS" THEN SavingsImpact(updated_amount, 0, 0)
       ELSE IF transaction_type = "SHARED" THEN SavingsImpact(0, 0, updated_amount)
       ELSE IF unknown_is_not_checking THEN checking_transaction
       ELSE SavingsImpact(updated_amount, 0, 0)

\* ------------------------------------------------- balance cascade (adjuftments)
\* sort_values(by=["date", "imported_at", "created_at"]): a precedes b
KeyBefore(a, b) ==
    \/ a.date < b.date
    \/ a.date = b.date /\ a.imported_at < b.imported_at
    \/ a.date = b.date /\ a.imported_at = b.imported_at /\ a.created_at < b.created_at

\* Variant of the sort that orders by date alone, later rows of a day first;
\* C23 does not hold of it.
RECURSIVE sort_values_ByDateOnly(_)
sort_values_ByDateOnly(frame) ==
    IF frame = <<>> THEN <<>>
    ELSE LET rest == sort_values_ByDateOnly(Tail(frame))
             n == Cardinality({k \in 1..Len(rest) : rest[k].date <= Head(frame).date})
         IN SubSeq(rest, 1, n) \o <<Head(frame)>> \o SubSeq(rest, n + 1, Len(rest))

\* the stable ascending sort: a row goes after the rows that precede it and
\* before the rows of the same key that were supplied after it
RECURSIVE sort_values(_)
sort_values(frame) ==
    IF frame = <<>> THEN <<>>
    ELSE LET rest == sort_values(Tail(frame))
             n == Cardinality({k \in 1..Len(rest) : KeyBefore(rest[k], Head(frame))})
         IN SubSeq(rest, 1, n) \o <<Head(frame)>> \o SubSeq(rest, n + 1, Len(rest))

\* Dashboard._process_bank_account_data: the name of the checking account
checking_account_name(account_dict) ==
    CHOOSE a \in DOMAIN account_dict : account_dict[a].type = "Checking"

\* Dashboard._get_account_impact_mapping: the impact column of every account
\* (and of the transaction's own account, known or not)
_get_account_impact_mapping(checking_account, account_dict, transaction_data) ==
    LET own == transaction_data.account
        amount == transaction_data.amount
    IN IF transaction_data.expense_type = "Savings"
          /\ transaction_data.category # "Savings Spend"
       THEN [a \in DOMAIN account_dict \cup {checking_account, own} |->
                IF a = own THEN amount
                ELSE IF a = checking_account THEN -amount
                ELSE 0]
       ELSE IF transaction_data.expense_type = "Income"
       THEN [a \in DOMAIN account_dict \cup {own} |-> IF a = own THEN amount ELSE 0]
       ELSE [a \in DOMAIN account_dict \cup {own} |-> IF a = own THEN -amount ELSE 0]

\* Dashboard._get_impacted_data: the rows in sorted order, each with its
\* expense_type and its impact columns
impacted_data(expense_df, checking_account, account_dict) ==
    LET sorted == sort_values(expense_df)
        Typed(row) == [id |-> row.id, date |-> row.date, amount |-> row.amount,
                       category |-> row.category, transaction |-> row.transaction,
                       account |-> row.account,
                       expense_type |-> categorize_expenses(row.category, row.transaction)]
    IN [k \in 1..Len(sorted) |->
          [row |-> Typed(sorted[k]),
           impact |-> _get_account_impact_mapping(checking_account, account_dict,
                                                  Typed(sorted[k]))]]

RECURSIVE cumsum(_, _, _)
cumsum(frame, a, k) ==
    IF k = 0 THEN 0 ELSE cumsum(frame, a, k - 1) + frame[k].impact[a]

\* Variant of _get_account_balance_data that leaves the starting balances
\* out of the running totals; C21 does not hold of it.
_get_account_balance_data_NoStart(frame, account_dict) ==
    IF Len(frame) = 0 THEN Result("raise", <<>>)
    ELSE Result("ok",
           [rows |-> [k \in 1..Len(frame) |->
                        [row |-> frame[k].row,
                         impact |-> frame[k].impact,
                         balance |-> [a \in DOMAIN account_dict |-> cumsum(frame, a, k)]]],
            account_balances |-> [a \in DOMAIN account_dict |->
                                     cumsum(frame, a, Len(frame))]])

\* Dashboard._get_account_balance_data: the starting balance goes on the row
\* labelled 0, the balance column is the running total, the account's balance
\* its last value; a frame without rows has no label 0 and the lookup raises
_get_account_balance_data(frame, account_dict) ==
    IF Len(frame) = 0 THEN Result("raise", <<>>)
    ELSE Result("ok",
           [rows |-> [k \in 1..Len(frame) |->
                        [row |-> frame[k].row,
                         impact |-> frame[k].impact,
                         balance |-> [a \in DOMAIN account_dict |->
                                         account_dict[a].starting_balance
                                         + cumsum(frame, a, k)]]],
            account_balances |-> [a \in DOMAIN account_dict |->
                                     account_dict[a].starting_balance
                                     + cumsum(frame, a, Len(frame))]])

\* Dashboard._balance_df
balance_df(expense_df, account_dict) ==
    _get_account_balance_data(
        impacted_data(expense_df, checking_account_name(account_dict), account_dict),
        account_dict)

RECURSIVE SumOver(_, _)
SumOver(f, S) ==
    IF S = {} THEN 0
    ELSE LET x == CHOOSE y \in S : TRUE IN f[x] + SumOver(f, S \ {x})

\* Dashboard._process_account_balances: the roll-up of the balances by type
_process_account_balances(account_balances, account_dict) ==
    LET OfType(t) == {a \in DOMAIN account_balances : account_dict[a].type = t}
    IN [balances |-> account_balances,
        checking_balance |-> SumOver(account_balances, OfType("Checking")),
        total_savings |-> SumOver(account_balances, OfType("Savings")),
        net_worth |-> SumOver(account_balances, OfType("Checking"))
                      + SumOver(account_balances, OfType("Savings"))]

\* Dashboard.balance_df of adjuftments_v2 with _get_account_balances: the
\* rows in sorted order with the four amount columns and their running
\* totals, then the last row's balances and their sums; the starting balances
\* go on the row labelled 0, and a frame without rows has none
Dashboard_balance_df(dataframe, starting) ==
    LET sorted == sort_values(dataframe)
        Amounts(row) ==
            LET savings == _apply_savings_expense(row.category, row.amount, row.transaction)
            IN [checking |-> _apply_checking_expense(row.category, row.amount,
                                                     row.transaction),
                miscellaneous |-> savings.miscellaneous_savings,
                home |-> savings.home_savings,
                shared |-> savings.shared_savings]
        frame == [k \in 1..Len(sorted) |->
                    [row |-> [id |-> sorted[k].id, category |-> sorted[k].category,
                              transaction |-> sorted[k].transaction,
                              amount |-> sorted[k].amount],
                     impact |-> Amounts(sorted[k])]]
        Columns == {"checking", "miscellaneous", "home", "shared"}
        last == [a \in Columns |-> starting[a] + cumsum(frame, a, Len(frame))]
    IN IF Len(sorted) = 0 THEN Result("raise", <<>>)
       ELSE Result("ok",
              [rows |-> [k \in 1..Len(frame) |->
                           [row |-> frame[k].row,
                            impact |-> frame[k].impact,
                            balance |-> [a \in Columns |->
                                            starting[a] + cumsum(frame, a, k)]]],
               account_balances |-> last,
               net_worth |-> SumOver(last, Columns),
               total_savings |-> SumOver(last, Columns \ {"checking"})])

\* ------------------------------------------------------------ monthly figures
\* quotients are kept exact, as <<numerator, denominator>> in lowest terms
RECURSIVE GCD(_, _)
GCD(a, b) == IF b = 0 THEN a ELSE GCD(b, a % b)

Ratio(n, d) ==
    LET g == GCD(Abs(n), Abs(d))
        sign == IF d < 0 THEN -1 ELSE 1
    IN <<sign * (n \div g), sign * (d \div g)>>

RatioPlus(r, k) == Ratio(r[1] + k * r[2], r[2])

\* Variant of _percent_through_month that counts the day of now as passed;
\* C29 does not hold of it.
_percent_through_month_DayIncluded(now) ==
    Ratio(now - ThisMonth + 1, NextMonth - ThisMonth)

\* Dashboard._percent_through_month: the share of the month's seconds passed
\* at now (midnight of a day of the month)
_percent_through_month(now) == Ratio(now - ThisMonth, NextMonth - ThisMonth)

\* Dashboard._filter_to_current_month: the positions of the rows dated from
\* this_month on and before next_month
_filter_to_current_month(frame) ==
    {k \in 1..Len(frame) : frame[k].row.date >= ThisMonth /\ frame[k].row.date < NextMonth}

SumRows(frame, positions, Amount(_)) ==
    SumOver([k \in positions |-> Amount(frame[k].row)], positions)

\* Variant of the rollup that adds a Savings Spend row with its own sign; C28
\* does not hold of it.
_summarize_monthly_rollup_Unsigned(frame) ==
    LET current_months_data == _filter_to_current_month(frame)
        updated_amount(row) == row.amount
        types == {frame[k].row.expense_type : k \in current_months_data}
    IN [t \in types |->
          SumRows(frame, {k \in current_months_data : frame[k].row.expense_type = t},
                  updated_amount)]

\* Dashboard._summarize_monthly_rollup: the current month's total per expense
\* type, a Savings Spend row counted with the opposite sign
_summarize_monthly_rollup(frame) ==
    LET current_months_data == _filter_to_current_month(frame)
        updated_amount(row) == IF row.category = "Savings Spend" THEN -row.amount
                               ELSE row.amount
        types == {frame[k].row.expense_type : k \in current_months_data}
    IN [t \in types |->
          SumRows(frame, {k \in current_months_data : frame[k].row.expense_type = t},
                  updated_amount)]

\* dict.get(key, 0.0)
Get(d, key) == IF key \in DOMAIN d THEN d[key] ELSE 0

\* Variant of _get_monthly_totals that answers a zero budget with zero
\* percentages instead of raising; C30 does not hold of it.
_get_monthly_totals_ZeroBudget(frame, now, current_budget) ==
    LET updated_categories == _summarize_monthly_rollup(frame)
        plain(row) == row.amount
        monthly_expenses == Get(updated_categories, "Expense")
        percent_through_month == _percent_through_month(now)
        spent == IF current_budget = 0 THEN <<0, 1>>
                 ELSE Ratio(monthly_expenses, current_budget)
    IN Result("ok",
         [total_reimbursement |->
              SumRows(frame, {k \in 1..Len(frame) :
                                 frame[k].row.expense_type = "Reimbursement"}, plain),
          percent_through_month |-> percent_through_month,
          current_budget |-> current_budget,
          monthly_housing |-> Get(updated_categories, "Housing"),
          monthly_savings |-> Get(updated_categories, "Savings"),
          monthly_income |-> Get(updated_categories, "Income"),
          monthly_adjustments |-> Get(updated_categories, "Adjustment"),
          monthly_expenses |-> monthly_expenses,
          amount_under_budget |->
              Ratio(percent_through_month[1] * current_budget
                    - percent_through_month[2] * monthly_expenses,
                    percent_through_month[2]),
          amount_budget_left |-> current_budget - monthly_expenses,
          percent_budget_spent |-> spent,
          percent_budget_left |-> Ratio(spent[2] - spent[1], spent[2])])

\* Dashboard._get_monthly_totals; the division by a zero budget raises
_get_monthly_totals(frame, now, current_budget) ==
    LET updated_categories == _summarize_monthly_rollup(frame)
        plain(row) == row.amount
        monthly_expenses == Get(updated_categories, "Expense")
        percent_through_month == _percent_through_month(now)
    IN IF current_budget = 0 THEN Result("raise", <<>>)
       ELSE Result("ok",
         [total_reimbursement |->
              SumRows(frame, {k \in 1..Len(frame) :
                                 frame[k].row.expense_type = "Reimbursement"}, plain),
          percent_through_month |-> percent_through_month,
          current_budget |-> current_budget,
          monthly_housing |-> Get(updated_categories, "Housing"),
          monthly_savings |-> Get(updated_categories, "Savings"),
          monthly_income |-> Get(updated_categories, "Income"),
          monthly_adjustments |-> Get(updated_categories, "Adjustment"),
          monthly_expenses |-> monthly_expenses,
          amount_under_budget |->
              Ratio(percent_through_month[1] * current_budget
                    - percent_through_month[2] * monthly_expenses,
                    percent_through_month[2]),
          amount_budget_left |-> current_budget - monthly_expenses,
          percent_budget_spent |-> Ratio(monthly_expenses, current_budget),
          percent_budget_left |->
              Ratio(current_budget - monthly_expenses, current_budget)])

RatioSum(r, q) == Ratio(r[1] * q[2] + q[1] * r[2], r[2] * q[2])

\* the miscellaneous table: the employers (upper-cased), the rent, the salary
\* and the month's starting balance; the starting balances adjuftments_v2 keeps
miscellaneous ==
    [Employer |-> {"ACME"},
     MonthlyRent |-> 1200000,
     BiMonthlySalary |-> 2000000,
     MonthlyStartingBalance |-> 500000,
     starting |-> [checking |-> 1000000, miscellaneous |-> 500000,
                   home |-> 0, shared |-> 0]]

\* Dashboard._get_paycheck_count: the current month's Income rows whose first
\* " - " segment is an employer and whose second is "SALARY"; a row without a
\* second segment fails the lookup of split(" - ")[1]
_get_paycheck_count(frame, employer) ==
    LET current_month_income ==
            {k \in _filter_to_current_month(frame) : frame[k].row.expense_type = "Income"}
    IN IF \E k \in current_month_income : Len(frame[k].row.transaction) < 2
       THEN Result("raise", 0)
       ELSE Result("ok", Cardinality(
              {k \in current_month_income :
                  /\ Upper(frame[k].row.transaction[1]) \in employer
                  /\ Upper(frame[k].row.transaction[2]) = "SALARY"}))

\* Dashboard._expected_income
_expected_income(pay_check_count, bimonthly_income) ==
    IF pay_check_count = 0 THEN 2 * bimonthly_income
    ELSE IF pay_check_count = 1 THEN bimonthly_income
    ELSE 0

\* Dashboard._get_amount_to_save
_get_amount_to_save(frame, finance_dict) ==
    LET paycheck_count == _get_paycheck_count(frame, miscellaneous.Employer)
        plain(row) == row.amount
        next_month_rent ==
            SumRows(frame, {k \in 1..Len(frame) :
                               /\ frame[k].row.date >= NextMonth
                               /\ frame[k].row.expense_type = "Housing"}, plain)
        money_left_to_spend == finance_dict.checking_balance - finance_dict.amount_budget_left
        money_left_after_rent ==
            money_left_to_spend - (miscellaneous.MonthlyRent - next_month_rent)
        money_left_after_income ==
            money_left_after_rent
            + _expected_income(paycheck_count.value, miscellaneous.BiMonthlySalary)
    IN IF paycheck_count.kind = "raise" THEN Result("raise", <<>>)
       ELSE Result("ok",
              RatioPlus(finance_dict.amount_under_budget,
                        money_left_after_income - miscellaneous.MonthlyStartingBalance
                        + finance_dict.total_reimbursement))

\* Dashboard._get_budget_based_calculations
_get_budget_based_calculations(finance_dict, now) ==
    LET end_of_month == NextMonth - ThisMonth
        day == now - ThisMonth + 1
        resulting_savings == RatioPlus(finance_dict.amount_to_save, finance_dict.total_savings)
    IN [planned_budget |-> Ratio(finance_dict.current_budget, end_of_month),
        adjusted_budget |-> Ratio(finance_dict.amount_budget_left, end_of_month - day + 1),
        resulting_savings |-> resulting_savings,
        potential_savings |->
            RatioSum(RatioPlus(resulting_savings, finance_dict.amount_budget_left),
                     Ratio(-finance_dict.amount_under_budget[1],
                           finance_dict.amount_under_budget[2]))]

\* the rows ExpensesTable.query.order_by(date.desc(), imported_at.desc()).first()
\* may return
LatestRows(table) ==
    {i \in DOMAIN table :
        \A j \in DOMAIN table :
            \/ table[j].date < table[i].date
            \/ table[j].date = table[i].date /\ table[j].imported_at <= table[i].imported_at}

\* round(n / d) to the nearest integer, ties to the even one
RoundDiv(n, d) ==
    LET q == n \div d
        r == n % d
    IN IF 2 * r < d THEN q
       ELSE IF 2 * r > d THEN q + 1
       ELSE IF q % 2 = 0 THEN q ELSE q + 1

\* AdjuftmentsEncoder.format_float: money to the cent, a percentage to four
\* decimals of a percent, anything else as it is
format_float(amount, float_format) ==
    IF float_format = "money" THEN <<"$", RoundDiv(amount[1], 10 * amount[2])>>
    ELSE IF float_format = "percent" THEN <<"%", RoundDiv(1000000 * amount[1], amount[2])>>
    ELSE amount

\* Dashboard._get_final_dashboard_updates
_get_final_dashboard_updates(final_expense_row, now) ==
    [final_expense_record |-> <<final_expense_row.date, final_expense_row.transaction[1],
                                format_float(Ratio(final_expense_row.amount, 1), "money")>>,
     date_updated |-> now]

\* DashboardConfig.DICT_TO_FORMAT, the measures DICT_TO_DASHBOARD names
DICT_TO_FORMAT ==
    [amount_under_budget |-> "money", checking_balance |-> "money",
     amount_to_save |-> "money", amount_budget_left |-> "money",
     resulting_savings |-> "money", monthly_expenses |-> "money",
     monthly_savings |-> "money", total_savings |-> "money", net_worth |-> "money",
     splitwise_balance |-> "money", total_reimbursement |-> "money",
     current_budget |-> "money", monthly_income |-> "money",
     potential_savings |-> "money", percent_budget_left |-> "percent",
     percent_through_month |-> "percent", percent_budget_spent |-> "percent",
     home_balance |-> "money", miscellaneous_balance |-> "money",
     shared_balance |-> "money", planned_budget |-> "money",
     adjusted_budget |-> "money", date_updated |-> "none",
     final_expense_record |-> "none"]

\* Dashboard._process_dashboard_dict: the measures of the dashboard, formatted;
\* a key the dashboard does not name is dropped
_process_dashboard_dict(dashboard_dict) ==
    [key \in DOMAIN dashboard_dict \cap DOMAIN DICT_TO_FORMAT |->
        format_float(dashboard_dict[key], DICT_TO_FORMAT[key])]

\* Dashboard._get_dashboard_dict from the amount to save on: the budget based
\* calculations and the final updates join the figures, amounts as quotients
_get_dashboard_dict_to_save(frame, finance_dict, amount_to_save, now, final_expense_row) ==
    LET Whole(n) == Ratio(n, 1)
    IN IF amount_to_save.kind = "raise" THEN Result("raise", <<>>)
       ELSE IF Len(final_expense_row) = 0 THEN Result("raise", <<>>)
       ELSE Result("ok",
              [total_reimbursement |-> Whole(finance_dict.total_reimbursement),
               percent_through_month |-> finance_dict.percent_through_month,
               current_budget |-> Whole(finance_dict.current_budget),
               monthly_housing |-> Whole(finance_dict.monthly_housing),
               monthly_savings |-> Whole(finance_dict.monthly_savings),
               monthly_income |-> Whole(finance_dict.monthly_income),
               monthly_adjustments |-> Whole(finance_dict.monthly_adjustments),
               monthly_expenses |-> Whole(finance_dict.monthly_expenses),
               amount_under_budget |-> finance_dict.amount_under_budget,
               amount_budget_left |-> Whole(finance_dict.amount_budget_left),
               percent_budget_spent |-> finance_dict.percent_budget_spent,
               percent_budget_left |-> finance_dict.percent_budget_left,
               checking_balance |-> Whole(finance_dict.checking_balance),
               total_savings |-> Whole(finance_dict.total_savings),
               net_worth |-> Whole(finance_dict.net_worth),
               amount_to_save |-> amount_to_save.value]
              @@ _get_budget_based_calculations(
                     finance_dict @@ [amount_to_save |-> amount_to_save.value], now)
              @@ _get_final_dashboard_updates(final_expense_row[1], now))

\* Dashboard._get_dashboard_dict from the monthly totals on
_get_dashboard_dict_totals(frame, monthly_totals, balance_dict, now, final_expense_row) ==
    IF monthly_totals.kind = "raise" THEN Result("raise", <<>>)
    ELSE _get_dashboard_dict_to_save(
             frame,
             monthly_totals.value
             @@ [checking_balance |-> balance_dict.checking_balance,
                 total_savings |-> balance_dict.total_savings,
                 net_worth |-> balance_dict.net_worth],
             _get_amount_to_save(frame,
                 monthly_totals.value
                 @@ [checking_balance |-> balance_dict.checking_balance]),
             now, final_expense_row)

\* Dashboard._get_dashboard_dict after the cascade: the figures of one run
_get_dashboard_dict(balanced, account_dict, now, current_budget, final_expense_row) ==
    _get_dashboard_dict_totals(
        balanced.rows,
        _get_monthly_totals(balanced.rows, now, current_budget),
        _process_account_balances(balanced.account_balances, account_dict),
        now, final_expense_row)

\* -------------------------------------------------- bill-splitting service
\* Splitwise.split_a_transaction: the two owed shares; an odd cent is charged
\* to one of the two at random (shuffle), so the result is a set of outcomes
split_a_transaction(amount) ==
    IF ((amount \div 10) % 2) = 0
    THEN {<<amount \div 2, amount \div 2>>}
    ELSE LET first_owe == Round2((amount \div 2) + 5)
             second_owe == Round2((amount \div 2) - 5)
         IN {<<first_owe, second_owe>>, <<second_owe, first_owe>>}

\* Splitwise._get_transaction_balance: "ok" with the balance, "none" when the
\* record is discarded, "raise" when the derivation raises
_get_transaction_balance(expense) ==
    IF Len(expense.repayments) = 1
    THEN LET repayment == expense.repayments[1]
         IN IF repayment.toUser = Owner /\ repayment.fromUser = Partner
               /\ expense.payment = FALSE
            THEN Result("ok", Round2(expense.cost - repayment.amount))
            ELSE IF repayment.fromUser = Owner /\ repayment.toUser = Partner
                    /\ expense.payment = FALSE
            THEN Result("ok", Round2(repayment.amount))
            ELSE IF ~(\E i \in 1..Len(expense.users) : expense.users[i] = Partner)
            THEN Result("none", 0)
            ELSE IF expense.payment = TRUE
            THEN Result("ok", Round2(0))
            ELSE Result("raise", 0)
    ELSE IF Len(expense.repayments) = 0
    THEN IF expense.users[1] = Owner
         THEN Result("ok", Round2(-expense.cost))
         ELSE Result("raise", 0)
    ELSE Result("raise", 0)

\* Splitwise.process_expense: the flat record kept of a bill (valid when the
\* balance derivation is "ok")
process_expense(expense) ==
    [id |-> expense.id,
     transaction_balance |-> _get_transaction_balance(expense).value,
     cost |-> Round2(expense.cost),
     deleted |-> expense.deleted,
     description |-> expense.description,
     payment |-> expense.payment,
     updated_at |-> expense.updated_at]

\* the repayments the service derives for a bill the owner paid in full
SelfPaidRepayments(partner_owes) ==
    IF partner_owes > 0
    THEN <<[fromUser |-> Partner, toUser |-> Owner, amount |-> partner_owes]>>
    ELSE <<>>

\* Variant of create_self_paid_expense that bills the owner's share, not the
\* amount; C7 does not hold of it.
create_self_paid_expense_share(new_id, amount, description, shares, now) ==
    [id |-> new_id,
     cost |-> shares[1],
     description |-> _parse_splitwise_description(description),
     payment |-> FALSE,
     deleted |-> FALSE,
     updated_at |-> now,
     users |-> <<Owner, Partner>>,
     repayments |-> SelfPaidRepayments(shares[2])]

\* Splitwise.create_self_paid_expense: the bill submitted to the service
create_self_paid_expense(new_id, amount, description, shares, now) ==
    [id |-> new_id,
     cost |-> amount,
     description |-> _parse_splitwise_description(description),
     payment |-> FALSE,
     deleted |-> FALSE,
     updated_at |-> now,
     users |-> <<Owner, Partner>>,
     repayments |-> SelfPaidRepayments(shares[2])]

\* Splitwise.get_expenses: the bills changed after updated_after, processed in
\* turn; a derivation that raises fails the request, a discarded bill is left out
get_expenses(service, updated_after) ==
    LET ids == SetToSeq({b \in DOMAIN service : service[b].updated_at > updated_after})
        Kept(b) == _get_transaction_balance(service[b]).kind = "ok"
        kept == SelectSeq(ids, Kept)
    IN IF \E b \in DOMAIN service :
             /\ service[b].updated_at > updated_after
             /\ _get_transaction_balance(service[b]).kind = "raise"
       THEN [kind |-> "raise", value |-> <<>>]
       ELSE [kind |-> "ok", value |-> [k \in 1..Len(kept) |-> process_expense(service[kept[k]])]]

\* ------------------------------------------------------------- upsert path
\* Variant of _prepare_expenses_record_for_upsert that leaves the imported
\* flag as it was; C1 does not hold of it.
_prepare_keeping_imported(record) ==
    LET expense_type == categorize_expenses(record.category, record.transaction)
        improper_savings == record.account = Checking /\ expense_type = "Savings"
        improper_checking == /\ expense_type \notin {"Savings", "Adjustment"}
                             /\ record.category # "Interest"
                             /\ record.account # NoAccount
                             /\ record.account # Checking
        account == IF improper_savings THEN Savings
                   ELSE IF improper_checking THEN Checking
                   ELSE IF record.account = NoAccount THEN Checking
                   ELSE record.account
    IN [record EXCEPT !.splitwise = FALSE, !.account = account]

\* Variant of _prepare_expenses_record_for_upsert that moves a row of any
\* type but Savings off a non-checking account, an Adjustment and an
\* "Interest" row included; C16 as amended does not hold of it.
_prepare_without_exemptions(record) ==
    LET expense_type == categorize_expenses(record.category, record.transaction)
        improper_savings == record.account = Checking /\ expense_type = "Savings"
        improper_checking == /\ expense_type # "Savings"
                             /\ record.account # NoAccount
                             /\ record.account # Checking
        account == IF improper_savings THEN Savings
                   ELSE IF improper_checking THEN Checking
                   ELSE IF record.account = NoAccount THEN Checking
                   ELSE record.account
    IN [record EXCEPT !.imported = TRUE, !.splitwise = FALSE, !.account = account]

\* Adjuftments._prepare_expenses_record_for_upsert (imported_at and uuid, a
\* timestamp and a hash of unchanged fields, are not kept in the model)
_prepare_expenses_record_for_upsert(record) ==
    LET expense_type == categorize_expenses(record.category, record.transaction)
        improper_savings == record.account = Checking /\ expense_type = "Savings"
        improper_checking == /\ expense_type \notin {"Savings", "Adjustment"}
                             /\ record.category # "Interest"
                             /\ record.account # NoAccount
                             /\ record.account # Checking
        account == IF improper_savings THEN Savings
                   ELSE IF improper_checking THEN Checking
                   ELSE IF record.account = NoAccount THEN Checking
                   ELSE record.account
    IN [record EXCEPT !.imported = TRUE, !.splitwise = FALSE, !.account = account]

\* -------------------------------------------------------------------- state
VARIABLES
    airtable,       \* spreadsheet expenses table: row id -> row
    expenses,       \* internal store, expenses table: row id -> row
    splitwise_db,   \* internal store, splitwise table: bill id -> flat record
    splitwise,      \* bill-splitting service: bill id -> expense
    clock,          \* the service's time (updated_at of its next change)
    nextRow,        \* the next row id the spreadsheet hands out
    eng,            \* per engine: position in its pass and its local values
    faults,         \* failed calls injected so far
    passes,         \* passes started so far
    partner,        \* changes made in the service from outside so far
    prevClean,      \* the last spreadsheet pass completed without a failure
    billOf,         \* bill id -> the ledger row a pass created it for
    removed,        \* <<row id, bill id>> of rows the delete path removed
    airtable0,      \* the spreadsheet as it was before the first pass
    dashboard,      \* what the dashboard and the spending rollup derived last
    accounts,       \* internal store, accounts table: account id -> account
    budgets,        \* internal store, budgets table: the month's proposed budget
    pipeline,       \* the refresh pipeline: its arguments, its locals and its position
    clean_start     \* what the last clean start of the accounts did

stores == <<airtable, expenses, splitwise_db, splitwise, clock, nextRow>>
hist == <<faults, passes, partner, prevClean, billOf, removed, airtable0, dashboard, accounts, budgets, pipeline, clean_start>>
vars == <<airtable, expenses, splitwise_db, splitwise, clock, nextRow, eng,
          faults, passes, partner, prevClean, billOf, removed, airtable0, dashboard, accounts, budgets, pipeline, clean_start>>

MaxTime == 3 * Second

\* the dirty-set filter OR({Imported}=False(), {Delete}=True())
Dirty(row) == row.imported = FALSE \/ row.delete = TRUE

\* Adjuftments._get_new_airtable_expenses_data
_get_new_airtable_expenses_data(table) ==
    LET ids == SetToSeq({i \in DOMAIN table : Dirty(table[i])})
    IN [k \in 1..Len(ids) |-> table[ids[k]]]

Row(p_id, p_amount, p_text, p_category, p_account, p_imported, p_splitwise, p_bill, p_delete) ==
    [id |-> p_id, amount |-> p_amount, transaction |-> p_text,
     category |-> p_category, account |-> p_account, imported |-> p_imported,
     splitwise |-> p_splitwise, splitwise_id |-> p_bill, delete |-> p_delete,
     date |-> Today, imported_at |-> 0, created_at |-> 0]

NoRec == Row(NoRow, 0, <<"">>, "", NoAccount, FALSE, FALSE, NoBill, FALSE)

NoBillRec ==
    [id |-> NoBill, transaction_balance |-> 0, cost |-> 0, deleted |-> FALSE,
     description |-> <<"">>, payment |-> FALSE, updated_at |-> 0]

\* the accounts table: the primary checking account and two savings accounts
AccountRecord(p_type, p_starting_balance, p_default) ==
    [type |-> p_type, starting_balance |-> p_starting_balance,
     balance |-> 0, default |-> p_default]

DefaultAccounts ==
    (Checking :> AccountRecord("Checking", 1000000, TRUE))
    @@ (Savings :> AccountRecord("Savings", 500000, TRUE))
    @@ (OtherSavings :> AccountRecord("Savings", 0, FALSE))

\* the budgets table: proposed_budget of the current month
DefaultBudget == 3000000

\* nothing derived yet
NoDashboard ==
    [expense_type |-> <<>>, balance_type |-> <<>>, categories |-> Result("none", <<>>),
     run |-> Result("none", <<>>), balances |-> Result("none", <<>>),
     table |-> <<>>, sheet |-> <<>>,
     publish |-> [last |-> "none", published |-> <<>>, manifest |-> <<>>,
                  committed |-> 0, updated |-> 0]]

\* the local returned_value of the pipeline before primary_function returned
Unbound == [bound |-> FALSE, value |-> <<>>]

\* the pipeline's frame: an optional int is a sequence of at most one element
PipelineFrame(sleep_config, error_index, catchable_error, finally_function) ==
    [sleep_config |-> sleep_config, error_index |-> error_index,
     catchable_error |-> catchable_error, finally_function |-> finally_function,
     retry_attempts |-> <<>>, returned_value |-> Unbound,
     pc |-> "try", exc |-> "None", loop |-> 1,
     primary |-> <<>>, finals |-> <<>>, slept |-> <<>>, exhausted |-> 0]

\* no clean start ran
NoCleanStart == [kind |-> "none", error |-> "None", data_array |-> <<>>]

\* the pipeline was not started
NoPipeline == [PipelineFrame(<<>>, <<>>, "BaseException", FALSE) EXCEPT !.pc = "off"]

IdleEngine ==
    [pc |-> "idle", kind |-> "none", data |-> <<>>, idx |-> 0, rec |-> NoRec,
     tmp |-> NoBillRec, path |-> "none", log |-> <<>>, writes |-> 0,
     fault |-> FALSE, ret |-> "none", recent |-> <<>>, wm |-> 0,
     pub |-> <<>>, del |-> <<>>, item |-> NoRec, queue |-> <<>>]

\* foreign key expenses.splitwise_id -> splitwise.id of the internal store
ForeignKeyOk(row, bills) == row.splitwise_id = NoBill \/ row.splitwise_id \in DOMAIN bills

Referenced(bill_id, rows) == \E i \in DOMAIN rows : rows[i].splitwise_id = bill_id

\* get_max_date_from_table: the watermark, max(updated_at) of the splitwise table
MaxUpdatedAt(bills) ==
    CHOOSE t \in {bills[b].updated_at : b \in DOMAIN bills} :
        \A b \in DOMAIN bills : bills[b].updated_at <= t

\* ------------------------------------------------------------ initial state
\* The bill the partner entered before the first pass: the owner paid 40.00
\* and the partner owes half of it.  Clean start has mirrored it.
Bill1 ==
    [id |-> 1, cost |-> 40000, description |-> <<"Splitwise", "Lunch">>,
     payment |-> FALSE, deleted |-> FALSE, updated_at |-> Second,
     users |-> <<Owner, Partner>>,
     repayments |-> <<[fromUser |-> Partner, toUser |-> Owner, amount |-> 20000]>>]

\* the contents of a row the user typed: <<amount, transaction, account>>
Contents == {<<40000, <<"Lunch">>, NoAccount>>, <<10, <<"Food", " Lunch">>, Savings>>}

\* what the first spreadsheet row may look like: any flags the user can set,
\* a bill id that is absent, resolves, or dangles
FirstRows ==
    {Row(1, c[1], c[2], "Food", c[3], imp, spl, sid, del) :
        c \in Contents,
        imp \in BOOLEAN, spl \in BOOLEAN, sid \in {NoBill, 1, DanglingBill},
        del \in BOOLEAN}

\* the second row: not there, a plain new row, or a row to delete that is
\* linked to the same bill as the first may be
SecondRows ==
    {Row(2, 40000, <<"Lunch">>, "Food", NoAccount, FALSE, FALSE, NoBill, FALSE),
     Row(2, 20000, <<"Splitwise", "Lunch">>, "Splitwise", Checking, TRUE, FALSE, 1, TRUE)}

\* the internal mirror of a row that an earlier pass imported
Mirror(row) ==
    [row EXCEPT !.imported = TRUE, !.splitwise = FALSE, !.delete = FALSE,
                !.account = IF row.account = NoAccount THEN Checking ELSE row.account,
                !.splitwise_id = IF row.splitwise_id = 1 THEN 1 ELSE NoBill]

\* the state before the first pass: the spreadsheet rows, which of them an
\* earlier pass mirrored, the bills of the service and the internal store's
\* mirror of them
InitFrom(firstRows, secondRows, bills, mirror) ==
    /\ \E r1 \in firstRows, two \in SUBSET secondRows, m1 \in BOOLEAN :
          /\ Cardinality(two) <= 1
          /\ airtable = [i \in {1} \cup {r.id : r \in two} |->
                            IF i = 1 THEN r1 ELSE CHOOSE r \in two : r.id = i]
          /\ expenses = [i \in {i \in DOMAIN airtable :
                                    (i = 1 /\ m1) \/ (i # 1 /\ airtable[i].imported)} |->
                            Mirror(airtable[i])]
    /\ airtable0 = airtable
    /\ splitwise = bills
    /\ splitwise_db = mirror
    /\ clock = MaxUpdatedAt(bills)
    /\ nextRow = 3
    /\ eng = [w \in Workers |-> IdleEngine]
    /\ faults = 0
    /\ passes = 0
    /\ partner = 0
    /\ prevClean = FALSE
    /\ billOf = [b \in DOMAIN bills |-> NoRow]
    /\ removed = {}
    /\ dashboard = NoDashboard
    /\ accounts = DefaultAccounts
    /\ budgets = DefaultBudget
    /\ pipeline = NoPipeline
    /\ clean_start = NoCleanStart

Init == InitFrom(FirstRows, SecondRows, [b \in {1} |-> Bill1], [b \in {1} |-> process_expense(Bill1)])

\* ------------------------------------------------------- engine bookkeeping
Go(w, e) == eng' = [eng EXCEPT ![w] = e]

\* a call fails: the request is not applied
Fault == faults < MaxFaults /\ faults' = faults + 1

NoFault == faults' = faults

\* the exception leaves the pass
Raise(w) == Go(w, [eng[w] EXCEPT !.pc = "failed", !.fault = TRUE])

Logged(e, call) == [e EXCEPT !.log = Append(@, call)]

Wrote(e) == [e EXCEPT !.writes = IF @ < 9 THEN @ + 1 ELSE @]

Me(w) == eng[w]

\* the times the service may stamp its next change with
Now == {t \in {clock, clock + Second} : t <= MaxTime}

NewBillId == 1 + Cardinality(DOMAIN splitwise)

\* -------------------------------------------------------- spreadsheet intake
\* Variant of the dispatch that tests the splitwise flag before the delete
\* flag; C6 does not hold of it.
Dispatch_SplitwiseFirst(row) ==
    IF row.splitwise = TRUE THEN "splitwise"
    ELSE IF row.delete = TRUE THEN "delete"
    ELSE IF row.splitwise_id # NoBill THEN "import_linked"
    ELSE "import"

\* Adjuftments.refresh_airtable_expenses_data, the dispatch of one dirty row
Dispatch(row) ==
    IF row.delete = TRUE THEN "delete"
    ELSE IF row.splitwise = TRUE THEN "splitwise"
    ELSE IF row.splitwise_id # NoBill THEN "import_linked"
    ELSE "import"

\* Variant of the first call that creates a bill for every row on the
\* bill-creation path, linked or not; C8 does not hold of it.
FirstCall_AlwaysCreate(row) ==
    LET path == Dispatch(row)
    IN IF path = "delete"
       THEN (IF row.splitwise_id # NoBill THEN "del_sw" ELSE "del_get")
       ELSE IF path = "splitwise" THEN "spl_create"
       ELSE IF path = "import_linked" THEN "imp_get"
       ELSE "ups_db"

\* the first remote call of the path a row takes
FirstCall(row) ==
    LET path == Dispatch(row)
    IN IF path = "delete"
       THEN (IF row.splitwise_id # NoBill THEN "del_sw" ELSE "del_get")
       ELSE IF path = "splitwise"
       THEN (IF row.splitwise_id = NoBill THEN "spl_create" ELSE "spl_get")
       ELSE IF path = "import_linked" THEN "imp_get"
       ELSE "ups_db"

\* the pass starts: it fetches the dirty set
StartAirtablePass(w) ==
    /\ Me(w).pc = "idle"
    /\ passes < MaxPasses
    /\ passes' = passes + 1
    /\ \/ /\ NoFault
          /\ Go(w, [IdleEngine EXCEPT !.pc = "next", !.kind = "airtable",
                                      !.ret = "next",
                                      !.data = _get_new_airtable_expenses_data(airtable)])
       \/ /\ Fault
          /\ Go(w, [IdleEngine EXCEPT !.pc = "failed", !.kind = "airtable",
                                      !.fault = TRUE])
    /\ UNCHANGED <<stores, partner, prevClean, billOf, removed, airtable0, dashboard, accounts, budgets, pipeline, clean_start>>

\* the loop takes the next dirty row and dispatches it
NextRow(w) ==
    /\ Me(w).pc = "next"
    /\ Me(w).kind = "airtable"
    /\ Me(w).idx < Len(Me(w).data)
    /\ LET row == Me(w).data[Me(w).idx + 1]
       IN Go(w, [Me(w) EXCEPT !.idx = @ + 1,
                              !.rec = IF FirstCall(row) = "spl_create"
                                      THEN [row EXCEPT !.splitwise = FALSE]
                                      ELSE row,
                              !.tmp = NoBillRec,
                              !.path = Dispatch(row),
                              !.log = <<>>,
                              !.pc = FirstCall(row)])
    /\ UNCHANGED <<stores, hist>>

\* the loop is over: the pass returns
FinishAirtablePass(w) ==
    /\ Me(w).pc = "next"
    /\ Me(w).kind = "airtable"
    /\ Me(w).idx = Len(Me(w).data)
    /\ Go(w, IdleEngine)
    /\ prevClean' = ~Me(w).fault
    /\ UNCHANGED <<stores, faults, passes, partner, billOf, removed, airtable0, dashboard, accounts, budgets, pipeline, clean_start>>

\* the exception reached the caller of the pass
Recover(w) ==
    /\ Me(w).pc = "failed"
    /\ Go(w, IdleEngine)
    /\ prevClean' = FALSE
    /\ UNCHANGED <<stores, faults, passes, partner, billOf, removed, airtable0, dashboard, accounts, budgets, pipeline, clean_start>>

\* ---- delete path: Adjuftments._handle_airtable_delete_request
\* _delete_splitwise_data: a failure is swallowed (returns None)
DeleteSplitwise(w) ==
    /\ Me(w).pc = "del_sw"
    /\ LET b == Me(w).rec.splitwise_id
           live == b \in DOMAIN splitwise /\ ~splitwise[b].deleted
           e == Logged([Me(w) EXCEPT !.pc = "del_sw_db"], "sw_delete")
       IN \/ /\ NoFault
             /\ live
             /\ \E t \in Now :
                   /\ splitwise' = [splitwise EXCEPT ![b].deleted = TRUE,
                                                     ![b].updated_at = t]
                   /\ clock' = t
             /\ Go(w, Wrote(e))
             /\ UNCHANGED <<airtable, expenses, splitwise_db, nextRow>>
          \/ /\ NoFault
             /\ ~live
             /\ Go(w, e)
             /\ UNCHANGED stores
          \/ /\ Fault
             /\ Go(w, [e EXCEPT !.fault = TRUE])
             /\ UNCHANGED stores
    /\ UNCHANGED <<passes, partner, prevClean, billOf, removed, airtable0, dashboard, accounts, budgets, pipeline, clean_start>>

\* _delete_db_record(table="splitwise"): a failure is swallowed; the store
\* refuses to delete a bill record an expenses row still references
DeleteDbSplitwise(w) ==
    /\ Me(w).pc = "del_sw_db"
    /\ LET b == Me(w).rec.splitwise_id
           can == b \in DOMAIN splitwise_db /\ ~Referenced(b, expenses)
           e == Logged([Me(w) EXCEPT !.pc = "del_get"], "db_sw_delete")
       IN \/ /\ NoFault
             /\ can
             /\ splitwise_db' = Del(splitwise_db, b)
             /\ Go(w, Wrote(e))
          \/ /\ NoFault
             /\ ~can
             /\ Go(w, e)
             /\ UNCHANGED splitwise_db
          \/ /\ Fault
             /\ Go(w, [e EXCEPT !.fault = TRUE])
             /\ UNCHANGED splitwise_db
    /\ UNCHANGED <<airtable, expenses, splitwise, clock, nextRow>>
    /\ UNCHANGED <<passes, partner, prevClean, billOf, removed, airtable0, dashboard, accounts, budgets, pipeline, clean_start>>

\* _get_db_record(table="expenses"): any failure reads as "not found"
GetDbExpense(w) ==
    /\ Me(w).pc = "del_get"
    /\ LET e == Logged(Me(w), "db_get")
       IN \/ /\ NoFault
             /\ Go(w, [e EXCEPT !.pc = IF Me(w).rec.id \in DOMAIN expenses
                                       THEN "del_db" ELSE "del_at"])
          \/ /\ Fault
             /\ Go(w, [e EXCEPT !.pc = "del_at", !.fault = TRUE])
    /\ UNCHANGED <<stores, passes, partner, prevClean, billOf, removed, airtable0, dashboard, accounts, budgets, pipeline, clean_start>>

\* _delete_db_record(table="expenses"), then expense_record_to_delete['id']:
\* a swallowed failure makes the subscript raise
DeleteDbExpense(w) ==
    /\ Me(w).pc = "del_db"
    /\ LET id == Me(w).rec.id
           e == Logged(Me(w), "db_delete")
       IN \/ /\ NoFault
             /\ id \in DOMAIN expenses
             /\ expenses' = Del(expenses, id)
             /\ Go(w, Wrote([e EXCEPT !.pc = "del_at"]))
          \/ /\ NoFault
             /\ id \notin DOMAIN expenses
             /\ Go(w, [e EXCEPT !.pc = "failed", !.fault = TRUE])
             /\ UNCHANGED expenses
          \/ /\ Fault
             /\ Go(w, [e EXCEPT !.pc = "failed", !.fault = TRUE])
             /\ UNCHANGED expenses
    /\ UNCHANGED <<airtable, splitwise_db, splitwise, clock, nextRow>>
    /\ UNCHANGED <<passes, partner, prevClean, billOf, removed, airtable0, dashboard, accounts, budgets, pipeline, clean_start>>

\* _delete_airtable_data: a failure is swallowed (returns None)
DeleteAirtable(w) ==
    /\ Me(w).pc = "del_at"
    /\ LET id == Me(w).rec.id
           e == Logged([Me(w) EXCEPT !.pc = "next"], "at_delete")
       IN \/ /\ NoFault
             /\ id \in DOMAIN airtable
             /\ airtable' = Del(airtable, id)
             /\ removed' = removed \cup {<<id, Me(w).rec.splitwise_id>>}
             /\ Go(w, Wrote(e))
          \/ /\ NoFault
             /\ id \notin DOMAIN airtable
             /\ Go(w, e)
             /\ UNCHANGED <<airtable, removed>>
          \/ /\ Fault
             /\ Go(w, [e EXCEPT !.fault = TRUE])
             /\ UNCHANGED <<airtable, removed>>
    /\ UNCHANGED <<expenses, splitwise_db, splitwise, clock, nextRow>>
    /\ UNCHANGED <<passes, partner, prevClean, billOf, airtable0, dashboard, accounts, budgets, pipeline, clean_start>>

\* ---- bill-creation path: Adjuftments._handle_airtable_splitwise_request
\* _create_splitwise_data -> Splitwise.create_self_paid_expense
CreateSplitwise(w) ==
    /\ Me(w).pc = "spl_create"
    /\ \/ /\ NoFault
          /\ NewBillId <= MaxBills
          /\ \E shares \in split_a_transaction(Me(w).rec.amount), t \in Now :
                LET bill == create_self_paid_expense(NewBillId, Me(w).rec.amount,
                                Me(w).rec.transaction, shares, t)
                IN /\ splitwise' = Upd(splitwise, bill.id, bill)
                   /\ clock' = t
                   /\ billOf' = Upd(billOf, bill.id, Me(w).rec.id)
                   /\ Go(w, Wrote(Logged([Me(w) EXCEPT !.pc = "spl_load",
                                                       !.tmp = process_expense(bill)],
                                         "sw_create")))
          /\ UNCHANGED <<airtable, expenses, splitwise_db, nextRow>>
       \/ /\ Fault
          /\ Go(w, Logged([Me(w) EXCEPT !.pc = "failed", !.fault = TRUE], "sw_create"))
          /\ UNCHANGED <<stores, billOf>>
    /\ UNCHANGED <<passes, partner, prevClean, removed, airtable0, dashboard, accounts, budgets, pipeline, clean_start>>

\* _load_db_record(table="splitwise", record=new_splitwise_record)
LoadDbSplitwise(w) ==
    /\ Me(w).pc = "spl_load"
    /\ \/ /\ NoFault
          /\ splitwise_db' = Upd(splitwise_db, Me(w).tmp.id, Me(w).tmp)
          /\ Go(w, Wrote(Logged([Me(w) EXCEPT
                    !.pc = "ups_db",
                    !.rec = [@ EXCEPT !.splitwise_id = Me(w).tmp.id,
                                      !.amount = Me(w).tmp.transaction_balance]],
                "db_sw_load")))
       \/ /\ Fault
          /\ Go(w, Logged([Me(w) EXCEPT !.pc = "failed", !.fault = TRUE], "db_sw_load"))
          /\ UNCHANGED splitwise_db
    /\ UNCHANGED <<airtable, expenses, splitwise, clock, nextRow>>
    /\ UNCHANGED <<passes, partner, prevClean, billOf, removed, airtable0, dashboard, accounts, budgets, pipeline, clean_start>>

\* Variant of the lookup that leaves an id that does not resolve on the row;
\* C17 does not hold of it.
GetDbSplitwise_KeepsId(w) ==
    /\ Me(w).pc \in {"spl_get", "imp_get"}
    /\ LET e == Logged([Me(w) EXCEPT !.pc = "ups_db", !.rec.splitwise = FALSE],
                       "db_sw_get")
       IN \/ /\ NoFault
             /\ Go(w, e)
          \/ /\ Fault
             /\ Go(w, [e EXCEPT !.rec.splitwise_id = NoBill, !.fault = TRUE])
    /\ UNCHANGED <<stores, passes, partner, prevClean, billOf, removed, airtable0, dashboard, accounts, budgets, pipeline, clean_start>>

\* _get_db_record(table="splitwise"): an id that does not resolve (or a failed
\* lookup) is overridden with NULL; the splitwise flag is cleared
GetDbSplitwise(w) ==
    /\ Me(w).pc \in {"spl_get", "imp_get"}
    /\ LET e == Logged([Me(w) EXCEPT !.pc = "ups_db", !.rec.splitwise = FALSE],
                       "db_sw_get")
       IN \/ /\ NoFault
             /\ Go(w, [e EXCEPT !.rec.splitwise_id =
                                   IF @ \in DOMAIN splitwise_db THEN @ ELSE NoBill])
          \/ /\ Fault
             /\ Go(w, [e EXCEPT !.rec.splitwise_id = NoBill, !.fault = TRUE])
    /\ UNCHANGED <<stores, passes, partner, prevClean, billOf, removed, airtable0, dashboard, accounts, budgets, pipeline, clean_start>>

\* ---- upsert path: Adjuftments._upsert_airtable_expense
\* Variant of the internal upsert that has updated the spreadsheet row before
\* it writes the internal store; C3 does not hold of it.
LoadDbExpense_AirtableFirst(w) ==
    /\ Me(w).pc = "ups_db"
    /\ LET updated_record == _prepare_expenses_record_for_upsert(Me(w).rec)
           e == Logged(Me(w), "db_load")
           ok == Me(w).rec.splitwise = FALSE /\ ForeignKeyOk(updated_record, splitwise_db)
       IN /\ updated_record.id \in DOMAIN airtable
          /\ airtable' = Upd(airtable, updated_record.id, updated_record)
          /\ \/ /\ NoFault
                /\ ok
                /\ expenses' = Upd(expenses, updated_record.id, updated_record)
                /\ Go(w, Wrote([e EXCEPT !.pc = "ups_at", !.rec = updated_record]))
             \/ /\ NoFault
                /\ ~ok
                /\ Go(w, [e EXCEPT !.pc = "failed", !.fault = TRUE])
                /\ UNCHANGED expenses
             \/ /\ Fault
                /\ Go(w, [e EXCEPT !.pc = "failed", !.fault = TRUE])
                /\ UNCHANGED expenses
    /\ UNCHANGED <<splitwise_db, splitwise, clock, nextRow>>
    /\ UNCHANGED <<passes, partner, prevClean, billOf, removed, airtable0, dashboard, accounts, budgets, pipeline, clean_start>>

\* _prepare_expenses_record_for_upsert, then _load_db_record(table="expenses")
LoadDbExpense(w) ==
    /\ Me(w).pc = "ups_db"
    /\ LET updated_record == _prepare_expenses_record_for_upsert(Me(w).rec)
           e == Logged(Me(w), "db_load")
           ok == Me(w).rec.splitwise = FALSE /\ ForeignKeyOk(updated_record, splitwise_db)
       IN \/ /\ NoFault
             /\ ok
             /\ expenses' = Upd(expenses, updated_record.id, updated_record)
             /\ Go(w, Wrote([e EXCEPT !.pc = "ups_at", !.rec = updated_record]))
          \/ /\ NoFault
             /\ ~ok
             /\ Go(w, [e EXCEPT !.pc = "failed", !.fault = TRUE])
             /\ UNCHANGED expenses
          \/ /\ Fault
             /\ Go(w, [e EXCEPT !.pc = "failed", !.fault = TRUE])
             /\ UNCHANGED expenses
    /\ UNCHANGED <<airtable, splitwise_db, splitwise, clock, nextRow>>
    /\ UNCHANGED <<passes, partner, prevClean, billOf, removed, airtable0, dashboard, accounts, budgets, pipeline, clean_start>>

\* _update_airtable_record(table="expenses", record_id, fields=updated_record)
UpdateAirtable(w) ==
    /\ Me(w).pc = "ups_at"
    /\ LET id == Me(w).rec.id
           e == Logged(Me(w), "at_update")
       IN \/ /\ NoFault
             /\ id \in DOMAIN airtable
             /\ airtable' = Upd(airtable, id, Me(w).rec)
             /\ Go(w, Wrote([e EXCEPT !.pc = Me(w).ret]))
          \/ /\ NoFault
             /\ id \notin DOMAIN airtable
             /\ Go(w, [e EXCEPT !.pc = "failed", !.fault = TRUE])
             /\ UNCHANGED airtable
          \/ /\ Fault
             /\ Go(w, [e EXCEPT !.pc = "failed", !.fault = TRUE])
             /\ UNCHANGED airtable
    /\ UNCHANGED <<expenses, splitwise_db, splitwise, clock, nextRow>>
    /\ UNCHANGED <<passes, partner, prevClean, billOf, removed, airtable0, dashboard, accounts, budgets, pipeline, clean_start>>

\* --------------------------------------------------------------- bill intake
\* Adjuftments._generate_splitwise_manifest, the ledger-shaped row of a bill
ManifestRow(bill) ==
    Row(NoRow, bill.transaction_balance,
        parse_adjuftments_description(bill.description, "Splitwise"),
        "Splitwise", NoAccount, FALSE, FALSE, bill.id, FALSE)

\* Variant of the publish test that does not look at the deleted flag; C13
\* does not hold of it.
InPublish_IgnoringDeleted(bill) == bill.payment = FALSE

InPublish(bill) == bill.payment = FALSE /\ bill.deleted = FALSE

InDelete(bill) == ~InPublish(bill) /\ bill.deleted = TRUE

\* Adjuftments._generate_splitwise_manifest: <<publish_manifest, delete_manifest>>
_generate_splitwise_manifest(data_array) ==
    LET published == SelectSeq(data_array, InPublish)
    IN <<[k \in 1..Len(published) |-> ManifestRow(published[k])],
         SelectSeq(data_array, InDelete)>>

\* the internal ledger rows linked to a bill: _get_db_data(table="expenses",
\* params=dict(splitwise_id=...))
LinkedRows(bill_id) == {i \in DOMAIN expenses : expenses[i].splitwise_id = bill_id}

\* Adjuftments._get_latest_splitwise_data, first request: the watermark.  With
\* an empty splitwise table the maximum is null and fromisoformat raises.
StartBillPass(w) ==
    /\ Me(w).pc = "idle"
    /\ passes < MaxPasses
    /\ passes' = passes + 1
    /\ prevClean' = FALSE
    /\ \/ /\ NoFault
          /\ DOMAIN splitwise_db # {}
          /\ Go(w, [IdleEngine EXCEPT !.pc = "sw_fetch", !.kind = "splitwise",
                                      !.wm = MaxUpdatedAt(splitwise_db)])
       \/ /\ NoFault
          /\ DOMAIN splitwise_db = {}
          /\ Go(w, [IdleEngine EXCEPT !.pc = "failed", !.kind = "splitwise",
                                      !.fault = TRUE])
       \/ /\ Fault
          /\ Go(w, [IdleEngine EXCEPT !.pc = "failed", !.kind = "splitwise",
                                      !.fault = TRUE])
    /\ UNCHANGED <<stores, partner, billOf, removed, airtable0, dashboard, accounts, budgets, pipeline, clean_start>>

\* Variant of the fetch that asks for every bill, whatever the watermark; C9
\* does not hold of it.
FetchSplitwise_FullPull(w) ==
    /\ Me(w).pc = "sw_fetch"
    /\ LET got == get_expenses(splitwise, 0)
           manifest == _generate_splitwise_manifest(got.value)
       IN \/ /\ NoFault
             /\ got.kind = "ok"
             /\ Go(w, [Me(w) EXCEPT !.pc = IF Len(got.value) > 0 THEN "sw_load"
                                           ELSE "pub_next",
                                    !.recent = got.value,
                                    !.pub = manifest[1],
                                    !.del = manifest[2]])
          \/ /\ NoFault
             /\ got.kind = "raise"
             /\ Raise(w)
          \/ /\ Fault
             /\ Raise(w)
    /\ UNCHANGED <<stores, passes, partner, prevClean, billOf, removed, airtable0, dashboard, accounts, budgets, pipeline, clean_start>>

\* Adjuftments._get_latest_splitwise_data, second request: the bills updated
\* after the watermark plus one microsecond; then the manifests of what came
FetchSplitwise(w) ==
    /\ Me(w).pc = "sw_fetch"
    /\ LET got == get_expenses(splitwise, Me(w).wm + Microsecond)
           manifest == _generate_splitwise_manifest(got.value)
       IN \/ /\ NoFault
             /\ got.kind = "ok"
             /\ Go(w, [Me(w) EXCEPT !.pc = IF Len(got.value) > 0 THEN "sw_load"
                                           ELSE "pub_next",
                                    !.recent = got.value,
                                    !.pub = manifest[1],
                                    !.del = manifest[2]])
          \/ /\ NoFault
             /\ got.kind = "raise"
             /\ Raise(w)
          \/ /\ Fault
             /\ Raise(w)
    /\ UNCHANGED <<stores, passes, partner, prevClean, billOf, removed, airtable0, dashboard, accounts, budgets, pipeline, clean_start>>

\* _load_db_data(table="splitwise", data_array=recent_data), one record; after
\* the last one _get_splitwise_balance reads the balance
LoadSplitwiseData(w) ==
    /\ Me(w).pc = "sw_load"
    /\ LET bill == Me(w).recent[Me(w).idx + 1]
       IN \/ /\ NoFault
             /\ splitwise_db' = Upd(splitwise_db, bill.id, bill)
             /\ Go(w, Wrote([Me(w) EXCEPT !.idx = @ + 1,
                                          !.pc = IF Me(w).idx + 1 = Len(Me(w).recent)
                                                 THEN "pub_next" ELSE "sw_load"]))
          \/ /\ Fault
             /\ Raise(w)
             /\ UNCHANGED splitwise_db
    /\ UNCHANGED <<airtable, expenses, splitwise, clock, nextRow>>
    /\ UNCHANGED <<passes, partner, prevClean, billOf, removed, airtable0, dashboard, accounts, budgets, pipeline, clean_start>>

\* the loop over the publish manifest takes its next item, or is over
PublishNext(w) ==
    /\ Me(w).pc = "pub_next"
    /\ IF Me(w).pub = <<>>
       THEN Go(w, [Me(w) EXCEPT !.pc = "bd_next"])
       ELSE Go(w, [Me(w) EXCEPT !.pc = "pub_get", !.item = Head(Me(w).pub),
                                !.pub = Tail(@)])
    /\ UNCHANGED <<stores, hist>>

\* _get_db_data(table="expenses", params=dict(splitwise_id=...))
PublishLookup(w) ==
    /\ Me(w).pc = "pub_get"
    /\ LET preexisting_data == SetToSeq(LinkedRows(Me(w).item.splitwise_id))
       IN \/ /\ NoFault
             /\ Go(w, [Me(w) EXCEPT !.queue = preexisting_data,
                                    !.pc = IF preexisting_data = <<>> THEN "pub_create"
                                           ELSE "pub_each"])
          \/ /\ Fault
             /\ Raise(w)
    /\ UNCHANGED <<stores, passes, partner, prevClean, billOf, removed, airtable0, dashboard, accounts, budgets, pipeline, clean_start>>

\* for preexisting_record in preexisting_data: upsert the manifest row under
\* the id of the preexisting record
PublishExisting(w) ==
    /\ Me(w).pc = "pub_each"
    /\ IF Me(w).queue = <<>>
       THEN Go(w, [Me(w) EXCEPT !.pc = "pub_next"])
       ELSE Go(w, [Me(w) EXCEPT !.pc = "ups_db", !.ret = "pub_each",
                                !.item = [@ EXCEPT !.id = Head(Me(w).queue)],
                                !.rec = [Me(w).item EXCEPT !.id = Head(Me(w).queue)],
                                !.queue = Tail(@), !.log = <<>>])
    /\ UNCHANGED <<stores, hist>>

\* _create_airtable_data(table="expenses", record=airtable_record)
PublishCreate(w) ==
    /\ Me(w).pc = "pub_create"
    /\ \/ /\ NoFault
          /\ nextRow <= MaxRows
          /\ LET new_airtable_expense == [Me(w).item EXCEPT !.id = nextRow]
             IN /\ airtable' = Upd(airtable, nextRow, new_airtable_expense)
                /\ nextRow' = nextRow + 1
                /\ Go(w, Wrote([Me(w) EXCEPT !.pc = "ups_db", !.ret = "pub_next",
                                             !.rec = new_airtable_expense,
                                             !.log = <<"at_create">>]))
       \/ /\ Fault
          /\ Raise(w)
          /\ UNCHANGED <<airtable, nextRow>>
    /\ UNCHANGED <<expenses, splitwise_db, splitwise, clock>>
    /\ UNCHANGED <<passes, partner, prevClean, billOf, removed, airtable0, dashboard, accounts, budgets, pipeline, clean_start>>

\* the loop over the delete manifest takes its next item, or the pass returns
DeleteNext(w) ==
    /\ Me(w).pc = "bd_next"
    /\ IF Me(w).del = <<>>
       THEN Go(w, IdleEngine)
       ELSE Go(w, [Me(w) EXCEPT !.pc = "bd_get", !.tmp = Head(Me(w).del),
                                !.del = Tail(@), !.log = <<>>])
    /\ UNCHANGED <<stores, hist>>

\* Variant of the lookup without the assertion, which takes the first of the
\* linked rows; C15 does not hold of it.
DeleteLookup_FirstOfMany(w) ==
    /\ Me(w).pc = "bd_get"
    /\ LET preexisting_airtable_data == SetToSeq(LinkedRows(Me(w).tmp.id))
       IN \/ /\ NoFault
             /\ Go(w, IF preexisting_airtable_data = <<>>
                      THEN [Me(w) EXCEPT !.pc = "bd_load"]
                      ELSE [Me(w) EXCEPT !.pc = "bd_at",
                                         !.rec = expenses[preexisting_airtable_data[1]]])
          \/ /\ Fault
             /\ Raise(w)
    /\ UNCHANGED <<stores, passes, partner, prevClean, billOf, removed, airtable0, dashboard, accounts, budgets, pipeline, clean_start>>

\* Variant of the lookup that goes on to the upsert of the bill record without
\* removing the linked row; C14 does not hold of it.
DeleteLookup_KeepsRow(w) ==
    /\ Me(w).pc = "bd_get"
    /\ LET preexisting_airtable_data == SetToSeq(LinkedRows(Me(w).tmp.id))
       IN \/ /\ NoFault
             /\ Len(preexisting_airtable_data) <= 1
             /\ Go(w, [Me(w) EXCEPT !.pc = "bd_load"])
          \/ /\ NoFault
             /\ Len(preexisting_airtable_data) > 1
             /\ Raise(w)
          \/ /\ Fault
             /\ Raise(w)
    /\ UNCHANGED <<stores, passes, partner, prevClean, billOf, removed, airtable0, dashboard, accounts, budgets, pipeline, clean_start>>

\* _get_db_data(table="expenses", params=dict(splitwise_id=...)), and the
\* assertion that at most one row is linked to the deleted bill
DeleteLookup(w) ==
    /\ Me(w).pc = "bd_get"
    /\ LET preexisting_airtable_data == SetToSeq(LinkedRows(Me(w).tmp.id))
       IN \/ /\ NoFault
             /\ Len(preexisting_airtable_data) <= 1
             /\ Go(w, IF preexisting_airtable_data = <<>>
                      THEN [Me(w) EXCEPT !.pc = "bd_load"]
                      ELSE [Me(w) EXCEPT !.pc = "bd_at",
                                         !.rec = expenses[preexisting_airtable_data[1]]])
          \/ /\ NoFault
             /\ Len(preexisting_airtable_data) > 1
             /\ Raise(w)
          \/ /\ Fault
             /\ Raise(w)
    /\ UNCHANGED <<stores, passes, partner, prevClean, billOf, removed, airtable0, dashboard, accounts, budgets, pipeline, clean_start>>

\* _delete_airtable_data(table="expenses"): a failure is swallowed
DeleteLinkedAirtable(w) ==
    /\ Me(w).pc = "bd_at"
    /\ LET id == Me(w).rec.id
           e == Logged([Me(w) EXCEPT !.pc = "bd_db"], "at_delete")
       IN \/ /\ NoFault
             /\ id \in DOMAIN airtable
             /\ airtable' = Del(airtable, id)
             /\ Go(w, Wrote(e))
          \/ /\ NoFault
             /\ id \notin DOMAIN airtable
             /\ Go(w, e)
             /\ UNCHANGED airtable
          \/ /\ Fault
             /\ Go(w, [e EXCEPT !.fault = TRUE])
             /\ UNCHANGED airtable
    /\ UNCHANGED <<expenses, splitwise_db, splitwise, clock, nextRow>>
    /\ UNCHANGED <<passes, partner, prevClean, billOf, removed, airtable0, dashboard, accounts, budgets, pipeline, clean_start>>

\* _delete_db_record(table="expenses"): a failure is swallowed
DeleteLinkedDb(w) ==
    /\ Me(w).pc = "bd_db"
    /\ LET id == Me(w).rec.id
           e == Logged([Me(w) EXCEPT !.pc = "bd_load"], "db_delete")
       IN \/ /\ NoFault
             /\ id \in DOMAIN expenses
             /\ expenses' = Del(expenses, id)
             /\ Go(w, Wrote(e))
          \/ /\ NoFault
             /\ id \notin DOMAIN expenses
             /\ Go(w, e)
             /\ UNCHANGED expenses
          \/ /\ Fault
             /\ Go(w, [e EXCEPT !.fault = TRUE])
             /\ UNCHANGED expenses
    /\ UNCHANGED <<airtable, splitwise_db, splitwise, clock, nextRow>>
    /\ UNCHANGED <<passes, partner, prevClean, billOf, removed, airtable0, dashboard, accounts, budgets, pipeline, clean_start>>

\* _load_db_data(table="splitwise", data_array=airtable_record_deletion)
LoadDeletedBill(w) ==
    /\ Me(w).pc = "bd_load"
    /\ \/ /\ NoFault
          /\ splitwise_db' = Upd(splitwise_db, Me(w).tmp.id, Me(w).tmp)
          /\ Go(w, Wrote(Logged([Me(w) EXCEPT !.pc = "bd_next"], "db_sw_load")))
       \/ /\ Fault
          /\ Raise(w)
          /\ UNCHANGED splitwise_db
    /\ UNCHANGED <<airtable, expenses, splitwise, clock, nextRow>>
    /\ UNCHANGED <<passes, partner, prevClean, billOf, removed, airtable0, dashboard, accounts, budgets, pipeline, clean_start>>

\* ---------------------------------------------- the partner, in the service
\* A pass reads the service once (the fetch) or addresses one bill by id, so
\* a change made while a pass runs acts as one made before or after it; the
\* partner's changes are taken between passes.
Quiet == \A w \in Workers : Me(w).pc = "idle"

\* the shapes of bill the partner enters in the sequential specification
PartnerBills ==
    {[id |-> NoBill, cost |-> 40000, description |-> <<"Dinner">>,
      payment |-> pay, deleted |-> FALSE, updated_at |-> 0,
      users |-> <<Owner, Partner>>,
      repayments |-> <<[fromUser |-> Owner, toUser |-> Partner, amount |-> 20000]>>] :
        pay \in BOOLEAN}

PartnerAdds ==
    /\ Quiet
    /\ partner < MaxPartner
    /\ partner' = partner + 1
    /\ NewBillId <= MaxBills
    /\ \E shape \in PartnerBills, t \in Now :
          /\ splitwise' = Upd(splitwise, NewBillId,
                              [shape EXCEPT !.id = NewBillId, !.updated_at = t])
          /\ clock' = t
          /\ billOf' = Upd(billOf, NewBillId, NoRow)
    /\ prevClean' = FALSE
    /\ UNCHANGED <<airtable, expenses, splitwise_db, nextRow, eng, faults, passes,
                   removed, airtable0, dashboard, accounts, budgets, pipeline, clean_start>>

PartnerUpdates ==
    /\ Quiet
    /\ partner < MaxPartner
    /\ partner' = partner + 1
    /\ \E b \in DOMAIN splitwise, t \in Now :
          /\ ~splitwise[b].deleted
          /\ splitwise' = [splitwise EXCEPT ![b].description = <<"Dinner">>,
                                            ![b].updated_at = t]
          /\ clock' = t
    /\ prevClean' = FALSE
    /\ UNCHANGED <<airtable, expenses, splitwise_db, nextRow, eng, faults, passes,
                   billOf, removed, airtable0, dashboard, accounts, budgets, pipeline, clean_start>>

PartnerDeletes ==
    /\ Quiet
    /\ partner < MaxPartner
    /\ partner' = partner + 1
    /\ \E b \in DOMAIN splitwise, t \in Now :
          /\ ~splitwise[b].deleted
          /\ splitwise' = [splitwise EXCEPT ![b].deleted = TRUE, ![b].updated_at = t]
          /\ clock' = t
    /\ prevClean' = FALSE
    /\ UNCHANGED <<airtable, expenses, splitwise_db, nextRow, eng, faults, passes,
                   billOf, removed, airtable0, dashboard, accounts, budgets, pipeline, clean_start>>

\* ------------------------------------------- the dashboard and the rollup
\* refresh_dashboard reads the rows with imported=True, delete=False
CleanRows(table) ==
    [i \in {i \in DOMAIN table : table[i].imported /\ ~table[i].delete} |-> table[i]]

\* refresh_dashboard of adjuftments: the cascade's typed rows
GetImpactedData ==
    /\ Quiet
    /\ dashboard' = [dashboard EXCEPT !.expense_type = _get_impacted_data(CleanRows(expenses))]
    /\ dashboard' # dashboard
    /\ UNCHANGED <<stores, eng, faults, passes, partner, prevClean, billOf, removed,
                   airtable0, accounts, budgets, pipeline, clean_start>>

\* the balance cascade of adjuftments_v2 over the same rows
BalanceDf ==
    /\ Quiet
    /\ dashboard' = [dashboard EXCEPT !.balance_type = _balance_df(CleanRows(expenses))]
    /\ dashboard' # dashboard
    /\ UNCHANGED <<stores, eng, faults, passes, partner, prevClean, billOf, removed,
                   airtable0, accounts, budgets, pipeline, clean_start>>

\* GET of the per-category spending rollup
GetCurrentMonthsExpenses ==
    /\ Quiet
    /\ dashboard' = [dashboard EXCEPT !.categories = get_current_months_expenses(expenses)]
    /\ dashboard' # dashboard
    /\ UNCHANGED <<stores, eng, faults, passes, partner, prevClean, billOf, removed,
                   airtable0, accounts, budgets, pipeline, clean_start>>

\* the orders a query without ORDER BY may return the rows in
Orders(table) ==
    {order \in [1..Cardinality(DOMAIN table) -> DOMAIN table] :
        \A j, k \in DOMAIN order : j # k => order[j] # order[k]}

\* the moments a refresh may run at: midnight of a day of the current month
Nows == {Today, ThisMonth + 5}

\* POST of the dashboard refresh of adjuftments: run_dashboard over the clean
\* rows, then the spreadsheet's dashboard table.  The account balances are
\* stored after the cascade when the caller announces new data; the measures
\* are stored only when every figure was computed.
RefreshDashboard ==
    /\ Quiet
    /\ \E updated_data \in BOOLEAN, now \in Nows, order \in Orders(CleanRows(expenses)),
          splitwise_balance \in {NoBill, 20000},
          final \in IF DOMAIN expenses = {} THEN {<<>>}
                    ELSE {<<expenses[i]>> : i \in LatestRows(expenses)} :
          \E expense_df \in {[k \in DOMAIN order |-> CleanRows(expenses)[order[k]]]} :
          \E balanced \in {balance_df(expense_df, accounts)} :
          \E prepared \in {IF balanced.kind = "raise" THEN Result("raise", <<>>)
                           ELSE _get_dashboard_dict(balanced.value, accounts, now,
                                                    budgets, final)} :
          \E processed \in
                {IF prepared.kind = "raise" THEN <<>>
                 ELSE _process_dashboard_dict(
                          IF splitwise_balance = NoBill THEN prepared.value
                          ELSE prepared.value
                               @@ [splitwise_balance |-> Ratio(splitwise_balance, 1)])} :
             /\ accounts' =
                  IF balanced.kind = "ok" /\ updated_data
                  THEN [a \in DOMAIN accounts |->
                          [accounts[a] EXCEPT !.balance = balanced.value.account_balances[a]]]
                  ELSE accounts
             /\ dashboard' =
                  [dashboard EXCEPT
                     !.run = [kind |-> prepared.kind, supplied |-> expense_df, now |-> now,
                              updated_data |-> updated_data, budget |-> budgets,
                              starting |-> [a \in DOMAIN accounts |->
                                              accounts[a].starting_balance],
                              type |-> [a \in DOMAIN accounts |-> accounts[a].type],
                              balanced |-> balanced,
                              paychecks |->
                                  IF prepared.kind = "ok"
                                  THEN _get_paycheck_count(balanced.value.rows,
                                                           miscellaneous.Employer).value
                                  ELSE 0,
                              figures |-> prepared.value],
                     !.table = IF prepared.kind = "ok" THEN processed @@ @ ELSE @,
                     !.sheet = IF prepared.kind = "ok" THEN processed @@ @ ELSE @]
    /\ UNCHANGED <<stores, eng, faults, passes, partner, prevClean, billOf, removed,
                   airtable0, budgets, pipeline, clean_start>>

\* the dashboard of adjuftments_v2 up to the balances: balance_df over the
\* clean rows with the starting balances of the miscellaneous table, then
\* _get_account_balances
BalanceCascade ==
    /\ Quiet
    /\ \E order \in Orders(CleanRows(expenses)) :
          \E dataframe \in {[k \in DOMAIN order |-> CleanRows(expenses)[order[k]]]} :
          \E balanced \in {Dashboard_balance_df(dataframe, miscellaneous.starting)} :
             dashboard' =
                [dashboard EXCEPT
                   !.balances = [kind |-> balanced.kind, supplied |-> dataframe,
                                 starting |-> miscellaneous.starting,
                                 value |-> balanced.value]]
    /\ UNCHANGED <<stores, eng, faults, passes, partner, prevClean, billOf, removed,
                   airtable0, accounts, budgets, pipeline, clean_start>>

\* ------------------------------------------------------------ specifications
AirtableStep(w) ==
    \/ StartAirtablePass(w)
    \/ NextRow(w)
    \/ FinishAirtablePass(w)
    \/ Recover(w)
    \/ DeleteSplitwise(w)
    \/ DeleteDbSplitwise(w)
    \/ GetDbExpense(w)
    \/ DeleteDbExpense(w)
    \/ DeleteAirtable(w)
    \/ CreateSplitwise(w)
    \/ LoadDbSplitwise(w)
    \/ GetDbSplitwise(w)
    \/ LoadDbExpense(w)
    \/ UpdateAirtable(w)

BillStep(w) ==
    \/ StartBillPass(w)
    \/ FetchSplitwise(w)
    \/ LoadSplitwiseData(w)
    \/ PublishNext(w)
    \/ PublishLookup(w)
    \/ PublishExisting(w)
    \/ PublishCreate(w)
    \/ DeleteNext(w)
    \/ DeleteLookup(w)
    \/ DeleteLinkedAirtable(w)
    \/ DeleteLinkedDb(w)
    \/ LoadDeletedBill(w)

PartnerStep ==
    \/ PartnerAdds
    \/ PartnerUpdates
    \/ PartnerDeletes

\* the spreadsheet intake, run and retried by one engine
Next == AirtableStep(1)

Spec == Init /\ [][Next]_vars

\* both intakes, run by one engine, with the partner changing bills in between
BillRows ==
    {Row(1, 20000, <<"Splitwise", "Lunch">>, "Splitwise", Checking, imp, spl, sid, FALSE) :
        imp \in BOOLEAN, spl \in BOOLEAN, sid \in {NoBill, 1}}
    \cup {Row(1, 20000, <<"Splitwise", "Lunch">>, "Splitwise", Checking, TRUE, FALSE, 1, TRUE)}

InitBills == InitFrom(BillRows, {}, [b \in {1} |-> Bill1], [b \in {1} |-> process_expense(Bill1)])

NextBills == AirtableStep(1) \/ BillStep(1) \/ PartnerStep

SpecBills == InitBills /\ [][NextBills]_vars

\* two engines run the spreadsheet intake at the same time
ConcRows ==
    {Row(1, 40000, <<"Food", "Lunch">>, "Food", NoAccount, FALSE, spl, sid, del) :
        spl \in BOOLEAN, sid \in {NoBill, 1}, del \in BOOLEAN}

InitConc == InitFrom(ConcRows, {}, [b \in {1} |-> Bill1], [b \in {1} |-> process_expense(Bill1)])

NextConc == \E w \in Workers : AirtableStep(w)

SpecConc == InitConc /\ [][NextConc]_vars

\* bill intake over one bill the partner changed after it was mirrored: every
\* shape of users, repayments, payment and deletion the service can return
BalanceUsers == {<<Owner, Partner>>, <<Partner, Owner>>, <<Owner, Stranger>>}

BalanceRepayments ==
    {<<>>}
    \cup {<<[fromUser |-> f, toUser |-> t, amount |-> 20000]>> :
            f \in {Owner, Partner, Stranger}, t \in {Owner, Partner}}
    \cup {<<[fromUser |-> Partner, toUser |-> Owner, amount |-> 10000],
            [fromUser |-> Stranger, toUser |-> Owner, amount |-> 10000]>>}

BalanceBills ==
    {[Bill1 EXCEPT !.cost = c, !.payment = pay, !.deleted = del, !.users = u,
                   !.repayments = rep, !.updated_at = 2 * Second] :
        c \in {40000, 20000}, pay \in BOOLEAN, del \in BOOLEAN,
        u \in BalanceUsers, rep \in BalanceRepayments}

BalanceRows ==
    {Row(1, 20000, <<"Splitwise", "Lunch">>, "Splitwise", Checking, TRUE, FALSE, sid, FALSE) :
        sid \in {NoBill, 1}}

\* a second ledger row the user linked to the same bill
BalanceSecondRows ==
    {Row(2, 20000, <<"Splitwise", "Lunch">>, "Splitwise", Checking, TRUE, FALSE, 1, FALSE)}

InitBalance ==
    \E bill \in BalanceBills :
        InitFrom(BalanceRows, BalanceSecondRows, [b \in {1} |-> bill], [b \in {1} |-> process_expense(Bill1)])

NextBalance == BillStep(1) \/ Recover(1)

SpecBalance == InitBalance /\ [][NextBalance]_vars

\* The classification and the account resolution: one new row of every
\* category, text and account goes down the upsert path, next to a row an
\* earlier pass imported; the dashboard and the rollup read the internal store.
ClassifyCategories ==
    {"Rent", "Mortgage", "Housing", "Savings", "Savings Spend", "Income",
     "Interest", "Adjustment", "Food", "rent"}

ClassifyTexts ==
    {<<"Lunch">>, <<"">>, <<"Reimbursement", "Bob">>, <<" Reimbursement ">>,
     <<"reimbursement">>, <<"Reimbursement-Bob">>, <<"Lunch-Reimbursement">>,
     <<"Re-imbursement">>, <<"Reimbursements">>}

Accounts == {NoAccount, Checking, Savings, OtherSavings}

ClassifyRows ==
    {Row(1, 40000, text, category, account, FALSE, FALSE, NoBill, FALSE) :
        text \in ClassifyTexts, category \in ClassifyCategories, account \in Accounts}

ClassifySecondRows ==
    {Row(2, 20000, <<"Lunch">>, "Food", Checking, TRUE, FALSE, NoBill, FALSE)}

InitClassify ==
    InitFrom(ClassifyRows, ClassifySecondRows,
             [b \in {1} |-> Bill1], [b \in {1} |-> process_expense(Bill1)])

NextClassify ==
    \/ StartAirtablePass(1)
    \/ NextRow(1)
    \/ LoadDbExpense(1)
    \/ UpdateAirtable(1)
    \/ FinishAirtablePass(1)
    \/ Recover(1)
    \/ GetImpactedData
    \/ BalanceDf
    \/ GetCurrentMonthsExpenses

SpecClassify == InitClassify /\ [][NextClassify]_vars

\* ------------------------------------------------------------------- claims
Calls(w) == {Me(w).log[i] : i \in 1..Len(Me(w).log)}

Count(w, call) == Cardinality({i \in 1..Len(Me(w).log) : Me(w).log[i] = call})

\* the row of the fetched dirty set that engine w is working on
Current(w) == Me(w).data[Me(w).idx]

InRow(w) == Me(w).kind = "airtable" /\ Me(w).idx >= 1

BillsFor(r) == {b \in DOMAIN billOf : billOf[b] = r}

Live(b) == b \in DOMAIN splitwise /\ ~splitwise[b].deleted

\* C1: after a spreadsheet-intake pass that completed without a failure, no
\* row of the spreadsheet is in the dirty set (imported=false or delete=true),
\* so the next pass fetches nothing and performs no write.
C1_SecondRunNoWrite ==
    prevClean =>
        /\ \A i \in DOMAIN airtable : ~Dirty(airtable[i])
        /\ \A w \in Workers :
              Me(w).kind = "airtable" => Me(w).data = <<>> /\ Me(w).writes = 0

C1_Witness ==
    /\ prevClean
    /\ Me(1).kind = "airtable"
    /\ Me(1).pc = "next"
    /\ passes = 2
    /\ airtable # airtable0
    /\ \E i \in DOMAIN airtable : airtable0[i].splitwise /\ airtable[i].splitwise_id > 1

\* C2: a spreadsheet-intake pass that is retried after a failed call ends with
\* at most one bill record in the bill-splitting service for each ledger row.
C2_RetryKeepsOneBill ==
    \A r \in RowIds : Cardinality(BillsFor(r)) <= 1

C4_BillDeletedBeforeRow ==
    \A p \in removed : p[2] = NoBill \/ ~Live(p[2])

\* C5: when two spreadsheet-intake passes that overlapped have both ended, with
\* no failed call, every row they processed has its internal mirror, and a row
\* that was flagged splitwise=true with no splitwise_id has exactly one bill
\* record in the bill-splitting service, as after a single pass.
C5_OverlapAsOnePass ==
    (Quiet /\ faults = 0) =>
        \A i \in DOMAIN airtable :
            (i \in DOMAIN airtable0 /\ Dirty(airtable0[i]) /\ ~Dirty(airtable[i])) =>
                /\ i \in DOMAIN expenses
                /\ (airtable0[i].splitwise /\ airtable0[i].splitwise_id = NoBill) =>
                      Cardinality(BillsFor(i)) = 1

\* C6: every dirty row takes one path only, by the priority delete, then
\* splitwise, then import: a row flagged delete makes only the delete path's
\* calls, a row flagged splitwise (and not delete) only the bill-creation
\* path's, any other row only the upsert's.
C6_OnePathByPriority ==
    \A w \in Workers :
        InRow(w) =>
            /\ Current(w).delete =>
                  /\ Me(w).path = "delete"
                  /\ Calls(w) \subseteq {"sw_delete", "db_sw_delete", "db_get",
                                         "db_delete", "at_delete"}
            /\ (~Current(w).delete /\ Current(w).splitwise) =>
                  /\ Me(w).path = "splitwise"
                  /\ Calls(w) \subseteq {"sw_create", "db_sw_load", "db_sw_get",
                                         "db_load", "at_update"}
            /\ (~Current(w).delete /\ ~Current(w).splitwise) =>
                  /\ Me(w).path \in {"import", "import_linked"}
                  /\ Calls(w) \subseteq {"db_sw_get", "db_load", "at_update"}

C6_Witness ==
    /\ InRow(1)
    /\ Me(1).pc = "next"
    /\ Current(1).delete /\ Current(1).splitwise /\ ~Current(1).imported
    /\ Current(1).splitwise_id = NoBill
    /\ "at_delete" \in Calls(1)
    /\ Current(1).id \notin DOMAIN airtable

\* the state right after the bill-creation path created a bill for its row
CreatedFor(w) ==
    /\ InRow(w)
    /\ Me(w).pc = "next"
    /\ Me(w).path = "splitwise"
    /\ Current(w).splitwise_id = NoBill

C7_Rest(w, description) ==
    LET row == Current(w)
        b == Me(w).tmp.id
    IN /\ Count(w, "sw_create") = 1
       /\ b \in DOMAIN splitwise
       /\ billOf[b] = row.id
       /\ splitwise[b].cost = row.amount
       /\ splitwise[b].description = description
       /\ splitwise_db[b] = process_expense(splitwise[b])
       /\ \A table \in {expenses, airtable} :
             /\ row.id \in DOMAIN table
             /\ table[row.id].splitwise = FALSE
             /\ table[row.id].splitwise_id = b
             /\ table[row.id].amount = splitwise_db[b].transaction_balance

\* C7 (as amended): for a dirty row with delete=false, splitwise=true and no
\* splitwise_id, the bill-creation path creates exactly one bill record whose
\* cost is the row's amount and whose description is the row's transaction
\* text as _parse_splitwise_description normalises it, mirrors it in the
\* internal store, and upserts the row in the internal store and the
\* spreadsheet with splitwise=false, the new bill's id and the bill's
\* transaction_balance as amount.
C7_BillCreation ==
    \A w \in Workers :
        CreatedFor(w) =>
            C7_Rest(w, _parse_splitwise_description(Current(w).transaction))

\* C7 (as claimed): the same with the description equal to the transaction text.
C7_DescriptionVerbatim ==
    \A w \in Workers : CreatedFor(w) => C7_Rest(w, Current(w).transaction)

C7_Witness ==
    /\ CreatedFor(1)
    /\ Current(1).transaction = <<"Food", " Lunch">>
    /\ Current(1).amount = 10
    /\ airtable[Current(1).id].amount = -10

\* C8: for a dirty row with splitwise=true whose splitwise_id is set, the
\* bill-creation path makes no call to the bill-splitting service; it writes
\* the row back with splitwise=false and its amount unchanged, and with its
\* splitwise_id when the lookup of the internal bill record found it (null
\* when it did not).
C8_NoBillForLinkedRow ==
    \A w \in Workers :
        (InRow(w) /\ Me(w).path = "splitwise" /\ Current(w).splitwise_id # NoBill) =>
            /\ Calls(w) \subseteq {"db_sw_get", "db_load", "at_update"}
            /\ BillsFor(Current(w).id) = {}
            /\ Me(w).pc = "next" =>
                  \A table \in {expenses, airtable} :
                     /\ Current(w).id \in DOMAIN table
                     /\ table[Current(w).id].splitwise = FALSE
                     /\ table[Current(w).id].amount = Current(w).amount
                     /\ table[Current(w).id].splitwise_id \in {NoBill, Current(w).splitwise_id}
                     /\ (~Me(w).fault /\ Current(w).splitwise_id \in DOMAIN splitwise_db)
                           => table[Current(w).id].splitwise_id = Current(w).splitwise_id
                     /\ Current(w).splitwise_id \notin DOMAIN splitwise_db
                           => table[Current(w).id].splitwise_id = NoBill

C8_Witness ==
    /\ InRow(1)
    /\ Me(1).path = "splitwise"
    /\ Me(1).pc = "next"
    /\ Current(1).splitwise_id = 1
    /\ airtable[Current(1).id].splitwise_id = 1
    /\ Cardinality(DOMAIN splitwise) = 1

\* the watermark is the latest updated_at of the internal bill table, and what
\* the fetch brought is later than it
C9_Fetch(w) ==
    /\ (Me(w).kind = "splitwise" /\ Me(w).pc = "sw_fetch") =>
          /\ \E b \in DOMAIN splitwise_db : splitwise_db[b].updated_at = Me(w).wm
          /\ \A b \in DOMAIN splitwise_db : splitwise_db[b].updated_at <= Me(w).wm
    /\ Me(w).kind = "splitwise" =>
          /\ \A k \in 1..Len(Me(w).recent) : Me(w).recent[k].updated_at > Me(w).wm
          /\ Me(w).recent = <<>> => Me(w).writes = 0

\* a step of a pass whose fetch brought nothing leaves the stores as they are
C9_Step(w) ==
    (Me(w).kind = "splitwise" /\ Me(w).pc \notin {"idle", "sw_fetch"}
        /\ Me(w).recent = <<>> /\ eng'[w] # eng[w])
    => UNCHANGED <<airtable, expenses, splitwise_db, splitwise>>

\* C9: bill intake takes as watermark the latest updated_at of the internal
\* bill table and fetches only bills updated strictly later than it, so no
\* bill stamped at the watermark (the boundary record) is fetched again; a pass
\* whose fetch brings nothing writes nothing to the internal store or the
\* spreadsheet.
C9_WatermarkPull ==
    /\ [](\A w \in Workers : C9_Fetch(w))
    /\ [][\A w \in Workers : C9_Step(w)]_vars

C9_Witness ==
    /\ Me(1).kind = "splitwise"
    /\ Me(1).pc = "bd_next"
    /\ Me(1).recent = <<>>
    /\ Me(1).wm = 2 * Second
    /\ passes = 2
    /\ \E b \in DOMAIN splitwise :
          /\ b \in DOMAIN splitwise_db
          /\ splitwise[b].updated_at = Me(1).wm
          /\ splitwise_db[b].updated_at = Me(1).wm

\* the fetch of engine w brought bill b with this transaction_balance
FetchedAs(w, b, balance) ==
    \E k \in 1..Len(Me(w).recent) :
        /\ Me(w).recent[k].id = b
        /\ Me(w).recent[k].transaction_balance = balance

\* C10: bill intake derives, for a fetched bill that is not a settlement, the
\* transaction_balance cost minus the repayment when its one repayment flows to
\* the owner from the partner, the repayment when its one repayment flows from
\* the owner to the partner, and minus cost when it has no repayment.
C10_BalanceByRepayment ==
    \A w \in Workers :
        (Me(w).kind = "splitwise" /\ Me(w).pc \notin {"idle", "sw_fetch"} /\ faults = 0) =>
            \A b \in DOMAIN splitwise :
                LET expense == splitwise[b]
                    repayments == expense.repayments
                IN (expense.updated_at > Me(w).wm /\ ~expense.payment) =>
                      /\ (Len(repayments) = 1 /\ repayments[1].toUser = Owner
                             /\ repayments[1].fromUser = Partner)
                            => FetchedAs(w, b, expense.cost - repayments[1].amount)
                      /\ (Len(repayments) = 1 /\ repayments[1].fromUser = Owner
                             /\ repayments[1].toUser = Partner)
                            => FetchedAs(w, b, repayments[1].amount)
                      /\ Len(repayments) = 0 => FetchedAs(w, b, -expense.cost)

\* the engine w has made the fetch of a bill-intake pass in which no call failed
FetchDone(w) ==
    Me(w).kind = "splitwise" /\ Me(w).pc \notin {"idle", "sw_fetch"} /\ faults = 0

HasUser(expense, user) == \E i \in 1..Len(expense.users) : expense.users[i] = user

\* C11: bill intake derives transaction_balance 0 for a fetched bill that is a
\* settlement (payment=true) between the owner and the partner, whatever its
\* cost, with one repayment or with none.
C11_SettlementIsZero ==
    \A w \in Workers :
        FetchDone(w) =>
            \A b \in DOMAIN splitwise :
                (/\ splitwise[b].updated_at > Me(w).wm
                 /\ splitwise[b].payment
                 /\ HasUser(splitwise[b], Partner)
                 /\ Len(splitwise[b].repayments) <= 1) => FetchedAs(w, b, 0)

\* the fetch of engine w raised
FetchRaised(w) == FetchDone(w) /\ Me(w).pc = "failed" /\ Me(w).recent = <<>>

BetweenOwnerAndPartner(repayment) ==
    \/ repayment.fromUser = Owner /\ repayment.toUser = Partner
    \/ repayment.fromUser = Partner /\ repayment.toUser = Owner

\* a bill with more than one repayment, with one repayment that is not between
\* the owner and the partner, or without the partner among its users
OtherShape(expense) ==
    \/ Len(expense.repayments) > 1
    \/ Len(expense.repayments) = 1 /\ ~BetweenOwnerAndPartner(expense.repayments[1])
    \/ ~HasUser(expense, Partner)

\* C12: a fetched bill of any other repayment shape is left out of what
\* get_expenses returns, and the fetch does not raise.
C12_OtherShapesDiscarded ==
    \A w \in Workers :
        FetchDone(w) =>
            \A b \in DOMAIN splitwise :
                (splitwise[b].updated_at > Me(w).wm /\ OtherShape(splitwise[b])) =>
                    /\ ~FetchRaised(w)
                    /\ \A k \in 1..Len(Me(w).recent) : Me(w).recent[k].id # b

\* how many items of a manifest come from the bill b
InManifest(manifest, b, key(_)) ==
    Cardinality({j \in 1..Len(manifest) : key(manifest[j]) = b})

PublishKey(item) == item.splitwise_id

DeleteKey(item) == item.id

\* C13: of the bills a fetch brought, each is in at most one manifest: in the
\* publish manifest exactly when payment=false and deleted=false, in the delete
\* manifest exactly when deleted=true, in neither when it is a settlement that
\* is not deleted; a publish row has category "Splitwise", imported, splitwise
\* and delete false, the bill's id as splitwise_id and its transaction_balance
\* as amount.
C13_Manifests ==
    \A w \in Workers :
        (Me(w).kind = "splitwise" /\ Me(w).pc = "sw_load") =>
            \A k \in 1..Len(Me(w).recent) :
                LET bill == Me(w).recent[k]
                    published == InManifest(Me(w).pub, bill.id, PublishKey)
                    deleted == InManifest(Me(w).del, bill.id, DeleteKey)
                IN /\ published + deleted <= 1
                   /\ published = 1 <=> (~bill.payment /\ ~bill.deleted)
                   /\ deleted = 1 <=> bill.deleted
                   /\ (bill.payment /\ ~bill.deleted) => published + deleted = 0
                   /\ \A j \in 1..Len(Me(w).pub) :
                         Me(w).pub[j].splitwise_id = bill.id =>
                            /\ Me(w).pub[j].category = "Splitwise"
                            /\ Me(w).pub[j].imported = FALSE
                            /\ Me(w).pub[j].splitwise = FALSE
                            /\ Me(w).pub[j].delete = FALSE
                            /\ Me(w).pub[j].amount = bill.transaction_balance

C13_Witness ==
    /\ Me(1).kind = "splitwise"
    /\ Me(1).pc = "sw_load"
    /\ Me(1).pub = <<>>
    /\ Len(Me(1).del) = 1
    /\ Me(1).del[1].payment
    /\ Me(1).del[1].deleted

\* the engine w is working on an item of the delete manifest and no call of
\* the pass has failed
InDeleteItem(w) ==
    /\ Me(w).kind = "splitwise"
    /\ Me(w).pc \in {"bd_at", "bd_db", "bd_load", "bd_next"}
    /\ Me(w).tmp.id # NoBill
    /\ ~Me(w).fault

\* the calls made for the item, in order, and what they have removed
C14_Order(w) ==
    LET item == Me(w).tmp
        row == Me(w).rec.id
        log == Me(w).log
    IN /\ Me(w).pc = "bd_at" => log = <<>> /\ LinkedRows(item.id) = {row}
       /\ Me(w).pc = "bd_db" =>
             /\ log = <<"at_delete">>
             /\ row \notin DOMAIN airtable
       /\ Me(w).pc = "bd_load" =>
             \/ log = <<>> /\ LinkedRows(item.id) = {}
             \/ /\ log = <<"at_delete", "db_delete">>
                /\ row \notin DOMAIN airtable
                /\ row \notin DOMAIN expenses
       /\ (Me(w).pc = "bd_next" /\ log # <<>>) =>
             /\ log \in {<<"db_sw_load">>, <<"at_delete", "db_delete", "db_sw_load">>}
             /\ splitwise_db[item.id] = item
             /\ item.deleted
             /\ LinkedRows(item.id) = {}

\* with no ledger row linked to the bill, the item's only write is the upsert
\* of the bill record
C14_OnlyUpsert(w) ==
    (InDeleteItem(w) /\ Me(w).pc = "bd_load" /\ Me(w).log = <<>>
        /\ eng'[w] # eng[w] /\ faults' = faults) =>
        /\ UNCHANGED <<airtable, expenses, splitwise>>
        /\ splitwise_db' = Upd(splitwise_db, Me(w).tmp.id, Me(w).tmp)
        /\ eng'[w].pc = "bd_next"

ManyLinked(w) ==
    /\ Me(w).kind = "splitwise"
    /\ Me(w).pc = "bd_get"
    /\ Cardinality(LinkedRows(Me(w).tmp.id)) > 1

C15_Raises(w) ==
    (ManyLinked(w) /\ eng'[w] # eng[w]) =>
        /\ eng'[w].pc = "failed"
        /\ eng'[w].del = Me(w).del
        /\ UNCHANGED stores

C15_Stops(w) ==
    (Me(w).kind = "splitwise" /\ Me(w).pc = "failed" /\ eng'[w] # eng[w]) =>
        /\ eng'[w].pc = "idle"
        /\ UNCHANGED stores

\* C15: when more than one internal ledger row is linked to a deleted bill,
\* bill intake raises at the lookup: no store is written, the linked rows stay
\* in the spreadsheet and the internal store, and the pass ends there, the
\* rest of the delete manifest unprocessed.
C15_ManyLinkedRaises ==
    [][\A w \in Workers : C15_Raises(w) /\ C15_Stops(w)]_vars

C15_Witness ==
    /\ Me(1).kind = "splitwise"
    /\ Me(1).pc = "failed"
    /\ faults = 0
    /\ Me(1).tmp.deleted
    /\ LinkedRows(Me(1).tmp.id) = {1, 2}
    /\ {1, 2} \subseteq DOMAIN airtable

\* ---- C16
\* the row the upsert path was given and the record it wrote, once the
\* internal store has taken it
Upserted(w) == Me(w).pc = "ups_at" /\ Me(w).idx > 0

GivenRow(w) == Me(w).data[Me(w).idx]

\* the account the claim names for a type, a category and a supplied account
ClaimedAccount(expense_type, category, account) ==
    IF \/ account = NoAccount
       \/ (account = Savings /\ expense_type # "Savings")
       \/ (expense_type # "Savings" /\ category # "Interest"
           /\ account # NoAccount /\ account # Checking)
    THEN Checking
    ELSE IF expense_type = "Savings" /\ account = Checking THEN Savings
    ELSE account

\* the same, with the two exemptions: an Adjustment, and a row of category
\* "Interest", keep the account they came with
ExemptingAccount(expense_type, category, account) ==
    IF expense_type = "Savings" /\ account = Checking THEN Savings
    ELSE IF \/ account = NoAccount
            \/ (expense_type \notin {"Savings", "Adjustment"} /\ category # "Interest"
                /\ account # Checking)
    THEN Checking
    ELSE account

ResolvedAs(w, Account(_, _, _)) ==
    Upserted(w) =>
        LET given == GivenRow(w)
            expected == Account(categorize_expenses(given.category, given.transaction),
                                given.category, given.account)
        IN /\ Me(w).rec.account = expected
           /\ expenses[given.id].account = expected

\* C16 (as stated): the upsert path resolves the account to default Checking
\* when it is unset, when it is the default Savings account and the type is
\* not Savings, or when the type is not Savings, the category is not
\* "Interest" and the account is set and not default Checking; to default
\* Savings when the type is Savings and the account is default Checking;
\* otherwise it keeps the supplied account.
C16_AccountAsStated == \A w \in Workers : ResolvedAs(w, ClaimedAccount)

\* C16 (amended): as above, except that a row of type Adjustment, and a row of
\* category "Interest", keep whatever account they were given, the default
\* Savings account included; only an unset account is defaulted for them.
C16_AccountResolution == \A w \in Workers : ResolvedAs(w, ExemptingAccount)

\* an Adjustment on the default Savings account has been upserted and kept it
C16_Witness ==
    \E w \in Workers :
        /\ Upserted(w)
        /\ GivenRow(w).category = "Adjustment"
        /\ GivenRow(w).transaction = <<"Lunch">>
        /\ GivenRow(w).account = Savings
        /\ expenses[GivenRow(w).id].account = Savings

\* ---- C17
\* engine w is on a row to import whose bill id resolves to no bill record of
\* the internal store
OnDanglingRow(w) ==
    /\ Me(w).kind = "airtable"
    /\ Me(w).idx > 0
    /\ Me(w).pc \notin {"idle", "next", "failed"}
    /\ GivenRow(w).delete = FALSE
    /\ GivenRow(w).splitwise_id # NoBill
    /\ GivenRow(w).splitwise_id \notin DOMAIN splitwise_db

\* no step on such a row fails unless a remote call failed in that step
C17_NotAnError(w) == OnDanglingRow(w) /\ faults' = faults => Me(w)'.pc # "failed"

\* the row reaches the upsert path with a null bill id, and the upsert imports
\* it so in the internal store and then in the spreadsheet
C17_Nulled(w) ==
    /\ OnDanglingRow(w) /\ Me(w).pc = "ups_db" => Me(w).rec.splitwise_id = NoBill
    /\ OnDanglingRow(w) /\ Me(w).pc = "ups_at" =>
          /\ expenses[GivenRow(w).id].imported
          /\ expenses[GivenRow(w).id].splitwise_id = NoBill

C17_Imported(w) ==
    OnDanglingRow(w) /\ Me(w).pc = "ups_at" /\ Me(w)'.pc = "next" =>
        /\ airtable'[GivenRow(w).id].imported
        /\ airtable'[GivenRow(w).id].splitwise_id = NoBill

\* every row of the internal store, and every spreadsheet row a pass has
\* imported, is linked to no bill or to a bill record of the internal store
C17_Resolved ==
    /\ \A i \in DOMAIN expenses : ForeignKeyOk(expenses[i], splitwise_db)
    /\ \A i \in DOMAIN airtable :
          /\ i \in DOMAIN airtable0
          /\ airtable0[i].imported = FALSE
          /\ airtable[i].imported
          => ForeignKeyOk(airtable[i], splitwise_db)

\* C17: a dirty row (delete=false) whose splitwise_id resolves to no bill
\* record of the internal store is not an error: the id is nulled and the row
\* is imported by the upsert path in the same pass; every imported ledger row
\* is linked to no bill or to an existing internal bill record.
C17_DanglingIdNulled ==
    /\ [](C17_Resolved /\ \A w \in Workers : C17_Nulled(w))
    /\ [][\A w \in Workers : C17_NotAnError(w) /\ C17_Imported(w)]_vars

\* a row with a dangling bill id has been imported with a null one
C17_Witness ==
    \E w \in Workers :
        /\ Me(w).kind = "airtable" /\ Me(w).idx > 0 /\ Me(w).pc = "next"
        /\ GivenRow(w).splitwise_id = DanglingBill
        /\ GivenRow(w).delete = FALSE
        /\ Me(w).log # <<>> /\ Me(w).log[Len(Me(w).log)] = "at_update"
        /\ expenses[GivenRow(w).id].imported
        /\ expenses[GivenRow(w).id].splitwise_id = NoBill
        /\ airtable[GivenRow(w).id].imported
        /\ airtable[GivenRow(w).id].splitwise_id = NoBill

\* ---- C18
\* the texts of the vocabulary whose part before the first "-", trimmed and
\* upper-cased, is "REIMBURSEMENT"
ReimbursementTexts ==
    {<<"Reimbursement", "Bob">>, <<" Reimbursement ">>, <<"reimbursement">>,
     <<"Reimbursement-Bob">>}

\* the type the rule order gives
FirstMatch(category, transaction) ==
    IF transaction \in ReimbursementTexts THEN "Reimbursement"
    ELSE IF category \in {"Rent", "Mortgage", "Housing"} THEN "Housing"
    ELSE IF category \in {"Savings", "Savings Spend"} THEN "Savings"
    ELSE IF category \in {"Income", "Interest"} THEN "Income"
    ELSE IF category = "Adjustment" THEN "Adjustment"
    ELSE "Expense"

\* C18: classify applies its rules in order, first match winning:
\* Reimbursement by the text whatever the category, else Housing for Rent,
\* Mortgage or Housing, else Savings for Savings or Savings Spend, else Income
\* for Income or Interest, else Adjustment for Adjustment, else Expense.
C18_FirstMatchWins ==
    \A i \in DOMAIN dashboard.expense_type :
        LET row == dashboard.expense_type[i]
        IN row.expense_type = FirstMatch(row.category, row.transaction)

\* a reimbursement filed under Rent has been typed Reimbursement, and a plain
\* row under Rent would be Housing
C18_Witness ==
    \E i \in DOMAIN dashboard.expense_type :
        /\ dashboard.expense_type[i].category = "Rent"
        /\ dashboard.expense_type[i].transaction = <<"Reimbursement-Bob">>
        /\ dashboard.expense_type[i].expense_type = "Reimbursement"
        /\ categorize_expenses("Rent", <<"Lunch">>) = "Housing"

\* ---- C19
ExpenseTypes == {"Reimbursement", "Housing", "Savings", "Income", "Adjustment", "Expense"}

\* C19: classify is total: for every category and text, an empty text, a text
\* without "-" and a category outside the vocabulary included, it returns one
\* of the six expense types and never raises; so a dashboard run types every
\* row it reads.
C19_ClassifyTotal ==
    [][dashboard'.expense_type # dashboard.expense_type =>
          /\ DOMAIN dashboard'.expense_type = DOMAIN CleanRows(expenses)
          /\ \A i \in DOMAIN dashboard'.expense_type :
                dashboard'.expense_type[i].expense_type \in ExpenseTypes]_vars

\* a row with an empty text and a category outside the vocabulary has been typed
C19_Witness ==
    \E i \in DOMAIN dashboard.expense_type :
        /\ dashboard.expense_type[i].category = "rent"
        /\ dashboard.expense_type[i].transaction = <<"">>
        /\ dashboard.expense_type[i].expense_type = "Expense"

\* ---- C20
\* the balance cascade, the monthly rollup and the upsert path's account
\* resolution give a row the same type
C20_SameType ==
    /\ \A i \in DOMAIN dashboard.balance_type :
          LET row == dashboard.balance_type[i]
          IN row.expense_type = categorize_expenses(row.category, row.transaction)
    /\ \A i \in DOMAIN dashboard.expense_type :
          LET row == dashboard.expense_type[i]
          IN row.expense_type = categorize_expenses(row.category, row.transaction)
    /\ \A i \in DOMAIN dashboard.balance_type \cap DOMAIN dashboard.expense_type :
          dashboard.balance_type[i] = dashboard.expense_type[i]

\* the rows the spending rollup has summed
Counted(rollup) == UNION {rollup.value[c].rows : c \in DOMAIN rollup.value}

\* the spending rollup sums the rows that classification calls Expense
C20_RollupOfExpenses ==
    dashboard'.categories # dashboard.categories /\ dashboard'.categories.kind = "ok" =>
        Counted(dashboard'.categories) =
            {i \in DOMAIN expenses :
                categorize_expenses(expenses[i].category, expenses[i].transaction) = "Expense"}

\* C20: the classification is the same at every call site: the balance
\* cascade, the monthly budget rollup and the upsert path's account
\* resolution type a (category, text) alike, and the per-category spending
\* rollup counts exactly the rows that classification calls Expense.
C20_OneClassification == []C20_SameType /\ [][C20_RollupOfExpenses]_vars

\* ------------------------------------------------------ the balance cascade
\* a ledger whose rows earlier passes imported: the internal store mirrors the
\* spreadsheet, no pass is running
InitLedger(rows, budget) ==
    /\ airtable = rows
    /\ expenses = rows
    /\ airtable0 = airtable
    /\ splitwise = [b \in {1} |-> Bill1]
    /\ splitwise_db = [b \in {1} |-> process_expense(Bill1)]
    /\ clock = MaxUpdatedAt(splitwise)
    /\ nextRow = 4
    /\ eng = [w \in Workers |-> IdleEngine]
    /\ faults = 0
    /\ passes = 0
    /\ partner = 0
    /\ prevClean = FALSE
    /\ billOf = [b \in DOMAIN splitwise |-> NoRow]
    /\ removed = {}
    /\ dashboard = NoDashboard
    /\ accounts = DefaultAccounts
    /\ budgets = budget
    /\ pipeline = NoPipeline
    /\ clean_start = NoCleanStart

\* an imported row with its sort keys
Dated(row, date, imported_at, created_at) ==
    [row EXCEPT !.date = date, !.imported_at = imported_at, !.created_at = created_at]

CascadeCategories == {"Food", "Savings", "Savings Spend", "Interest"}

\* the destination segment absent, recognised, ambiguous, unrecognised, cased,
\* padded, and cut out of a segment by a "-" without blanks
CascadeTexts ==
    {<<"Lunch">>, <<"Bank", "Transfer">>, <<"Bank", "Transfer", "Home">>,
     <<"Bank", "Transfer", "HOME">>, <<"Bank", "Transfer", "House Misc">>,
     <<"Bank", "Transfer", "Home Share">>, <<"Bank", "Transfer", " misc ">>,
     <<"Bank", "Transfer", "Shared">>, <<"Bank", "Transfer", "Vacation">>,
     <<"Bank", "To-Home">>}

\* the rows the upsert path stores: the account is the one it resolved from
\* the account the user typed, if any
CascadeRows ==
    {Dated(_prepare_expenses_record_for_upsert(
               Row(1, 40000, text, category, account, FALSE, FALSE, NoBill, FALSE)),
           Today, 1, 1) :
        text \in CascadeTexts, category \in CascadeCategories, account \in Accounts}

\* further rows: the same keys as the first, an earlier creation, an earlier
\* import, an earlier day
CascadeSecondRows ==
    {Dated(Row(2, 10000, <<"Acme", "Salary">>, "Income", Checking, TRUE, FALSE, NoBill, FALSE),
           k[1], k[2], k[3]) :
        k \in {<<Today, 1, 1>>, <<Today, 1, 0>>, <<Today, 0, 2>>, <<Today - 1, 2, 2>>}}

\* the first rows the replay of several rows is checked with
CascadeReplayRows ==
    {r \in CascadeRows :
        \/ r.category = "Food" /\ r.transaction = <<"Lunch">> /\ r.account = Checking
        \/ r.category = "Savings" /\ r.transaction = <<"Bank", "Transfer", "Home">>
           /\ r.account = Savings}

\* no row at all, one row of every kind, or two rows whose keys may tie
InitCascade ==
    \/ InitLedger(<<>>, DefaultBudget)
    \/ \E r1 \in CascadeRows : InitLedger([i \in {1} |-> r1], DefaultBudget)
    \/ \E r1 \in CascadeReplayRows, r2 \in CascadeSecondRows :
          InitLedger([i \in {1, 2} |-> IF i = 1 THEN r1 ELSE r2], DefaultBudget)

NextCascade ==
    \/ RefreshDashboard
    \/ BalanceCascade

SpecCascade == InitCascade /\ [][NextCascade]_vars

\* ------------------------------------------------------- the month's figures
\* the day before the month, its first and last day, the first day of the next
MonthDates == {ThisMonth - 1, ThisMonth, NextMonth - 1, NextMonth}

\* <<category, transaction, account typed>> of a row
MonthKinds ==
    {<<"Food", <<"Lunch">>, NoAccount>>,
     <<"Food", <<"Reimbursement", "Bob">>, NoAccount>>,
     <<"Rent", <<"Lunch">>, NoAccount>>,
     <<"Income", <<"Acme", "Salary">>, NoAccount>>,
     <<"Income", <<"Lunch">>, NoAccount>>,
     <<"Savings", <<"Bank", "Transfer", "Home">>, Savings>>,
     <<"Savings Spend", <<"Bank", "Transfer", "Home">>, Savings>>,
     <<"Savings Spend", <<"Reimbursement", "Bob">>, Savings>>}

MonthAmounts == {100000, 1500000}

MonthRows ==
    {Dated(_prepare_expenses_record_for_upsert(
               Row(1, amount, kind[2], kind[1], kind[3], FALSE, FALSE, NoBill, FALSE)),
           date, 1, 1) :
        kind \in MonthKinds, amount \in MonthAmounts, date \in MonthDates}

\* a second row, spent on food during the month
MonthSecondRow ==
    Dated(_prepare_expenses_record_for_upsert(
              Row(2, 1400000, <<"Lunch">>, "Food", NoAccount, FALSE, FALSE, NoBill, FALSE)),
          Today, 2, 2)

\* one row of every kind and date under the month's budget; the rows of the
\* month's first day under a budget of zero; two rows
InitMonth ==
    \/ \E r1 \in MonthRows : InitLedger([i \in {1} |-> r1], DefaultBudget)
    \/ \E r1 \in MonthRows :
          /\ r1.date = ThisMonth
          /\ InitLedger([i \in {1} |-> r1], 0)
    \/ \E r1 \in MonthRows :
          /\ r1.amount = 100000
          /\ r1.category \in {"Food", "Savings Spend"}
          /\ InitLedger([i \in {1, 2} |-> IF i = 1 THEN r1 ELSE MonthSecondRow],
                        DefaultBudget)

NextMonthly ==
    \/ RefreshDashboard
    \/ GetCurrentMonthsExpenses

SpecMonth == InitMonth /\ [][NextMonthly]_vars

\* the run of the dashboard refresh that was stored last, and the cascade of
\* adjuftments_v2 that was stored last
Ran == dashboard.run.kind # "none"

Cascaded == Ran /\ dashboard.run.balanced.kind = "ok"

CascadedV2 == dashboard.balances.kind = "ok"

\* the sum of the impacts a cascade assigned to an account over its first k rows
ImpactsUpTo(rows, a, k) == SumOver([j \in 1..k |-> rows[j].impact[a]], 1..k)

\* C21: whenever the cascade has run over a transaction stream, the ending
\* balance of every account is its starting balance plus the sum of the
\* impacts the cascade assigned to the account; net_worth is the sum of all
\* ending balances and total_savings the sum of the ending balances of the
\* accounts that are not Checking accounts.
C21_Conservation ==
    /\ Cascaded =>
          LET run == dashboard.run
              rows == run.balanced.value.rows
              ending == run.balanced.value.account_balances
          IN /\ \A a \in DOMAIN run.starting :
                   ending[a] = run.starting[a] + ImpactsUpTo(rows, a, Len(rows))
             /\ run.kind = "ok" =>
                   /\ run.figures.net_worth = <<SumOver(ending, DOMAIN ending), 1>>
                   /\ run.figures.total_savings
                        = <<SumOver(ending, {a \in DOMAIN ending : run.type[a] # "Checking"}),
                            1>>
    /\ CascadedV2 =>
          LET run == dashboard.balances
              rows == run.value.rows
              ending == run.value.account_balances
          IN /\ \A a \in DOMAIN run.starting :
                   ending[a] = run.starting[a] + ImpactsUpTo(rows, a, Len(rows))
             /\ run.value.net_worth = SumOver(ending, DOMAIN ending)
             /\ run.value.total_savings = SumOver(ending, DOMAIN ending \ {"checking"})

\* a refresh computed every figure over two rows that moved money into a
\* savings account
C21_Witness ==
    /\ Ran
    /\ dashboard.run.kind = "ok"
    /\ Len(dashboard.run.balanced.value.rows) = 2
    /\ \E a \in DOMAIN dashboard.run.starting :
          /\ dashboard.run.type[a] # "Checking"
          /\ dashboard.run.balanced.value.account_balances[a] # dashboard.run.starting[a]

\* C22: the cascade over an empty transaction stream does not fail: it
\* returns no rows and, for every account, an ending balance equal to the
\* account's starting balance.
C22_EmptyStreamBalances ==
    /\ Ran /\ Len(dashboard.run.supplied) = 0 =>
          /\ dashboard.run.balanced.kind = "ok"
          /\ dashboard.run.balanced.value.rows = <<>>
          /\ \A a \in DOMAIN dashboard.run.starting :
                dashboard.run.balanced.value.account_balances[a] = dashboard.run.starting[a]
    /\ dashboard.balances.kind # "none" /\ Len(dashboard.balances.supplied) = 0 =>
          /\ dashboard.balances.kind = "ok"
          /\ dashboard.balances.value.rows = <<>>
          /\ \A a \in DOMAIN dashboard.balances.starting :
                dashboard.balances.value.account_balances[a] = dashboard.balances.starting[a]

\* the sort key of a supplied row, and the order of the keys
SortKey(r) == <<r.date, r.imported_at, r.created_at>>

KeyLess(x, y) ==
    \/ x[1] < y[1]
    \/ x[1] = y[1] /\ x[2] < y[2]
    \/ x[1] = y[1] /\ x[2] = y[2] /\ x[3] < y[3]

\* where the row with this id stood in the order the rows were supplied in
SuppliedAt(supplied, id) == CHOOSE k \in 1..Len(supplied) : supplied[k].id = id

\* C23: whatever order the rows are supplied in, the cascade replays them
\* sorted by (date, imported_at, created_at) ascending, rows of the same key
\* in the order supplied; the running balance of an account at a row is the
\* account's starting balance plus the account's impacts of the rows up to
\* and including that row, so the starting balance is counted once, on the
\* first row of the sorted order.
C23_StableReplay ==
    Cascaded =>
        LET supplied == dashboard.run.supplied
            rows == dashboard.run.balanced.value.rows
            At(k) == SuppliedAt(supplied, rows[k].row.id)
        IN /\ Len(rows) = Len(supplied)
           /\ {rows[k].row.id : k \in 1..Len(rows)}
                = {supplied[k].id : k \in 1..Len(supplied)}
           /\ \A j, k \in 1..Len(rows) :
                 j < k =>
                    /\ ~KeyLess(SortKey(supplied[At(k)]), SortKey(supplied[At(j)]))
                    /\ SortKey(supplied[At(k)]) = SortKey(supplied[At(j)]) => At(j) < At(k)
           /\ \A a \in DOMAIN dashboard.run.starting :
                 /\ rows[1].balance[a] = dashboard.run.starting[a] + rows[1].impact[a]
                 /\ \A k \in 2..Len(rows) :
                       rows[k].balance[a] = rows[k - 1].balance[a] + rows[k].impact[a]

\* a refresh replayed two rows of the same day in another order than they
\* were supplied in
C23_Witness ==
    /\ Cascaded
    /\ Len(dashboard.run.supplied) = 2
    /\ dashboard.run.supplied[1].date = dashboard.run.supplied[2].date
    /\ dashboard.run.balanced.value.rows[1].row.id # dashboard.run.supplied[1].id

\* the bucket the third "-"-delimited part of a text names, if any
NamedBucket(transaction) ==
    LET parts == split_transaction(transaction)
    IN IF Len(parts) < 3 THEN "none"
       ELSE IF Contains(parts[3], "home") \/ Contains(parts[3], "house") THEN "home"
       ELSE IF Contains(parts[3], "misc") THEN "miscellaneous"
       ELSE IF Contains(parts[3], "share") THEN "shared"
       ELSE "none"

\* the impacts of a row are minus the amount on the account to and zero on
\* every other account
OnlyDebits(row, impacts, to) ==
    \A a \in DOMAIN impacts : impacts[a] = IF a = to THEN -row.amount ELSE 0

\* C24: a "Savings Spend" row has zero impact on the Checking account; minus
\* its amount goes to exactly one savings account, the one the destination
\* routing selects, and every other account gets zero impact.
C24_SavingsSpendRouted ==
    /\ Cascaded =>
          \A k \in DOMAIN dashboard.run.balanced.value.rows :
              LET entry == dashboard.run.balanced.value.rows[k]
              IN entry.row.category = "Savings Spend" =>
                    \E to \in DOMAIN dashboard.run.starting :
                        /\ dashboard.run.type[to] # "Checking"
                        /\ OnlyDebits(entry.row, entry.impact, to)
    /\ CascadedV2 =>
          \A k \in DOMAIN dashboard.balances.value.rows :
              LET entry == dashboard.balances.value.rows[k]
                  named == NamedBucket(entry.row.transaction)
              IN entry.row.category = "Savings Spend" =>
                    OnlyDebits(entry.row, entry.impact,
                               IF named = "none" THEN "miscellaneous" ELSE named)

\* the part of C24 on the cascade of adjuftments_v2
C24_SavingsSpendRoutedV2 ==
    CascadedV2 =>
        \A k \in DOMAIN dashboard.balances.value.rows :
            LET entry == dashboard.balances.value.rows[k]
                named == NamedBucket(entry.row.transaction)
            IN entry.row.category = "Savings Spend" =>
                  OnlyDebits(entry.row, entry.impact,
                             IF named = "none" THEN "miscellaneous" ELSE named)

\* C25: an "Interest" row whose text has a third "-"-delimited part that
\* contains "home", "house", "misc" or "share" (in any case) has zero impact
\* on Checking and its whole impact goes to the savings bucket of that
\* destination; any other Interest row impacts Checking only, as a debit, and
\* no savings bucket.  Exactly one account is impacted either way.
C25_InterestRouted ==
    CascadedV2 =>
        \A k \in DOMAIN dashboard.balances.value.rows :
            LET entry == dashboard.balances.value.rows[k]
                named == NamedBucket(entry.row.transaction)
            IN entry.row.category = "Interest" =>
                  /\ OnlyDebits(entry.row, entry.impact,
                                IF named = "none" THEN "checking" ELSE named)
                  /\ Cardinality({a \in DOMAIN entry.impact : entry.impact[a] # 0}) = 1

\* the cascade replayed an Interest row whose destination is cut out of a part
\* by a "-" and sent it to the home bucket
C25_Witness ==
    /\ CascadedV2
    /\ \E k \in DOMAIN dashboard.balances.value.rows :
          LET entry == dashboard.balances.value.rows[k]
          IN /\ entry.row.category = "Interest"
             /\ entry.row.transaction = <<"Bank", "To-Home">>
             /\ entry.impact["home"] = -entry.row.amount
             /\ entry.impact["checking"] = 0

\* C26: routing a row of category Savings or Savings Spend to its bucket never
\* fails: the third "-"-delimited part selects the home bucket when it
\* contains "home" or "house", else the miscellaneous bucket when it contains
\* "misc", else the shared bucket when it contains "share"; a row whose third
\* part is missing or names none of them goes to the miscellaneous bucket.
C26_RoutingTotal ==
    /\ dashboard.balances.kind # "none" /\ Len(dashboard.balances.supplied) > 0 => CascadedV2
    /\ CascadedV2 =>
          \A k \in DOMAIN dashboard.balances.value.rows :
              LET entry == dashboard.balances.value.rows[k]
                  named == NamedBucket(entry.row.transaction)
                  to == IF named = "none" THEN "miscellaneous" ELSE named
                  routed == IF entry.row.category = "Savings" THEN entry.row.amount
                            ELSE -entry.row.amount
              IN entry.row.category \in {"Savings", "Savings Spend"} =>
                    \A a \in {"miscellaneous", "home", "shared"} :
                        entry.impact[a] = IF a = to THEN routed ELSE 0

\* the cascade routed a Savings row whose third part names the house and misc
\* to the home bucket, and one whose third part names no destination to the
\* miscellaneous bucket
C26_Witness ==
    /\ CascadedV2
    /\ \E k \in DOMAIN dashboard.balances.value.rows :
          LET entry == dashboard.balances.value.rows[k]
          IN /\ entry.row.category = "Savings"
             /\ \/ /\ entry.row.transaction = <<"Bank", "Transfer", "House Misc">>
                   /\ entry.impact["home"] = entry.row.amount
                \/ /\ entry.row.transaction = <<"Bank", "Transfer", "Vacation">>
                   /\ entry.impact["miscellaneous"] = entry.row.amount

\* a refresh computed every figure
Figured == Ran /\ dashboard.run.kind = "ok"

\* dated on or after the first day of the month and before the first day of
\* the next
InMonth(r) == r.date >= ThisMonth /\ r.date < NextMonth

\* the month's total of an expense type over the rows supplied to the last
\* refresh, a Savings Spend row counted with the opposite sign
MonthTotal(type) ==
    LET supplied == dashboard.run.supplied
        counted == {k \in 1..Len(supplied) :
                       /\ InMonth(supplied[k])
                       /\ categorize_expenses(supplied[k].category,
                                              supplied[k].transaction) = type}
    IN SumOver([k \in counted |->
                   IF supplied[k].category = "Savings Spend" THEN -supplied[k].amount
                   ELSE supplied[k].amount],
               counted)

\* the salary rows of the month among the rows supplied to the last refresh
MonthPaychecks ==
    LET supplied == dashboard.run.supplied
    IN Cardinality({k \in 1..Len(supplied) :
                       /\ InMonth(supplied[k])
                       /\ supplied[k].category \in {"Income", "Interest"}
                       /\ supplied[k].transaction = <<"Acme", "Salary">>})

\* the monthly rollup and the paycheck count take the rows of the month only
C27_MonthWindowOfRollup ==
    Figured =>
        /\ dashboard.run.figures.monthly_expenses = <<MonthTotal("Expense"), 1>>
        /\ dashboard.run.figures.monthly_housing = <<MonthTotal("Housing"), 1>>
        /\ dashboard.run.figures.monthly_savings = <<MonthTotal("Savings"), 1>>
        /\ dashboard.run.figures.monthly_income = <<MonthTotal("Income"), 1>>
        /\ dashboard.run.paychecks = MonthPaychecks

\* C27: the current-month aggregates take exactly the rows dated on or after
\* the first day of the month and before the first day of the next month: a
\* row dated the first day of the next month is in no monthly total per
\* expense type, not in the paycheck count and not in the spending rollup per
\* category.
C27_MonthWindow ==
    /\ C27_MonthWindowOfRollup
    /\ dashboard.categories.kind = "ok" =>
          \A c \in DOMAIN dashboard.categories.value :
              \A i \in dashboard.categories.value[c].rows : InMonth(expenses[i])

\* the positions of the month's rows of an expense type among the rows
\* supplied to the last refresh, the Savings Spend rows or the others
MonthRowsOf(type, spend) ==
    {k \in 1..Len(dashboard.run.supplied) :
        LET r == dashboard.run.supplied[k]
        IN /\ InMonth(r)
           /\ categorize_expenses(r.category, r.transaction) = type
           /\ (r.category = "Savings Spend") = spend}

AmountOf(positions) ==
    SumOver([k \in positions |-> dashboard.run.supplied[k].amount], positions)

\* C28: in the monthly rollup per expense type a row of category "Savings
\* Spend" counts with minus its amount and every other row with plus its
\* amount: a Savings Spend row of 100.00 adds -100.00 to the month's Savings
\* total, and no Savings Spend row changes the Expense total.
C28_SavingsSpendNegated ==
    Figured =>
        /\ dashboard.run.figures.monthly_savings
             = <<AmountOf(MonthRowsOf("Savings", FALSE))
                 - AmountOf(MonthRowsOf("Savings", TRUE)), 1>>
        /\ dashboard.run.figures.monthly_expenses
             = <<AmountOf(MonthRowsOf("Expense", FALSE)), 1>>
        /\ dashboard.run.figures.monthly_income
             = <<AmountOf(MonthRowsOf("Income", FALSE)), 1>>
        /\ dashboard.run.figures.monthly_housing
             = <<AmountOf(MonthRowsOf("Housing", FALSE)), 1>>

\* a refresh over a Savings Spend row of 100.00 and a food row of the month
\* reported Savings of -100.00 and the food row alone as the Expense total
C28_Witness ==
    /\ Figured
    /\ Len(dashboard.run.supplied) = 2
    /\ \E k \in MonthRowsOf("Savings", TRUE) : dashboard.run.supplied[k].amount = 100000
    /\ dashboard.run.figures.monthly_savings = <<-100000, 1>>
    /\ dashboard.run.figures.monthly_expenses = <<1400000, 1>>

\* x = n / d for a quotient x kept in lowest terms
IsQuotient(x, n, d) == x[1] * d = x[2] * n

\* C29: amount_under_budget = percent_through_month x current_budget -
\* monthly_expenses, amount_budget_left = current_budget - monthly_expenses,
\* percent_budget_spent = monthly_expenses / current_budget and
\* percent_budget_left = 1 - percent_budget_spent, monthly_expenses being the
\* month's total of the rows of type Expense only; a budget of 3000 with 1500
\* spent half way through the month gives 0, 1500 and 0.5.
C29_BudgetFigures ==
    Figured =>
        LET figures == dashboard.run.figures
            current_budget == dashboard.run.budget
            monthly_expenses == AmountOf(MonthRowsOf("Expense", FALSE))
            passed == dashboard.run.now - ThisMonth
            month == NextMonth - ThisMonth
        IN /\ figures.monthly_expenses = <<monthly_expenses, 1>>
           /\ IsQuotient(figures.percent_through_month, passed, month)
           /\ IsQuotient(figures.amount_under_budget,
                         passed * current_budget - month * monthly_expenses, month)
           /\ figures.amount_budget_left = <<current_budget - monthly_expenses, 1>>
           /\ IsQuotient(figures.percent_budget_spent, monthly_expenses, current_budget)
           /\ IsQuotient(figures.percent_budget_left,
                         figures.percent_budget_spent[2] - figures.percent_budget_spent[1],
                         figures.percent_budget_spent[2])
           /\ current_budget = 3000000 /\ monthly_expenses = 1500000 /\ 2 * passed = month =>
                 /\ figures.amount_under_budget = <<0, 1>>
                 /\ figures.amount_budget_left = <<1500000, 1>>
                 /\ figures.percent_budget_spent = <<1, 2>>

\* a refresh half way through the month over a budget of 3000 found 1500
\* spent in two rows
C29_Witness ==
    /\ Figured
    /\ dashboard.run.budget = 3000000
    /\ 2 * (dashboard.run.now - ThisMonth) = NextMonth - ThisMonth
    /\ Len(dashboard.run.supplied) = 2
    /\ dashboard.run.figures.monthly_expenses = <<1500000, 1>>
    /\ dashboard.run.figures.amount_under_budget = <<0, 1>>
    /\ dashboard.run.figures.percent_budget_left = <<1, 2>>

\* C30: a budget of zero for the month is a configuration error: the refresh
\* raises instead of reporting percent_budget_spent and percent_budget_left,
\* whatever the month's expenses are, and writes no dashboard measure, in the
\* internal store or in the spreadsheet.
C30_ZeroBudgetRaises ==
    /\ [](Ran /\ dashboard.run.budget = 0 => dashboard.run.kind = "raise")
    /\ [][budgets = 0 =>
             /\ dashboard'.table = dashboard.table
             /\ dashboard'.sheet = dashboard.sheet]_vars

\* a refresh under a budget of zero raised over a month with expenses, and
\* the dashboard has no measure
C30_Witness ==
    /\ Ran
    /\ dashboard.run.budget = 0
    /\ dashboard.run.kind = "raise"
    /\ \E k \in 1..Len(dashboard.run.supplied) :
          /\ InMonth(dashboard.run.supplied[k])
          /\ dashboard.run.supplied[k].category = "Food"
    /\ dashboard.table = <<>>

\* C31: the paycheck count is the number of the month's Income rows whose
\* text splits on " - " into an employer of the configured list (in any case)
\* and "SALARY"; an Income row of another shape, such as one without any
\* " - ", is not counted and does not make the count fail.
C31_PaycheckCountTotal ==
    Ran /\ dashboard.run.budget # 0 /\ Len(dashboard.run.supplied) > 0 =>
        /\ dashboard.run.kind = "ok"
        /\ dashboard.run.paychecks = MonthPaychecks

\* C39: every row the upsert path writes has an account, and a row of type
\* Savings is never written on the default Checking account, whether the row
\* came with the default Checking account, with another account or with none.
C39_SavingsOffChecking ==
    \A w \in Workers :
        Upserted(w) =>
            LET given == GivenRow(w)
                written == expenses[given.id]
            IN /\ written.account # NoAccount
               /\ categorize_expenses(given.category, given.transaction) = "Savings"
                    => written.account # Checking

\* the part of C39 on the account being set
C39_AccountSet ==
    \A w \in Workers : Upserted(w) => expenses[GivenRow(w).id].account # NoAccount


\* ------------------------------------------------------ the refresh pipeline
MaxLoops == 5

\* the errors primary_function raises in the model
PrimaryErrors == {"ConnectionError", "KeyboardInterrupt"}

\* issubclass(error, catchable_error) over the classes of the model:
\* AdjuftmentsRefreshError(Exception), KeyboardInterrupt(BaseException)
Subclass(error, catchable_error) ==
    CASE catchable_error = "BaseException" -> TRUE
      [] catchable_error = "Exception" -> error # "KeyboardInterrupt"
      [] OTHER -> error = catchable_error

\* sleep_config[len(retry_attempts)] with Python's zero-based index: the time
\* slept, or no element past the end of the configuration (IndexError)
time_to_sleep(sleep_config, retry_attempts) ==
    IF Len(retry_attempts) + 1 <= Len(sleep_config)
    THEN <<sleep_config[Len(retry_attempts) + 1]>>
    ELSE <<>>

\* _sub_refresh_assist: the attempts with the time slept, or "Forever!", appended
_sub_refresh_assist(sleep_config, retry_attempts) ==
    LET slept == time_to_sleep(sleep_config, retry_attempts)
    IN Append(retry_attempts, IF Len(slept) = 0 THEN "Forever!" ELSE slept[1])

\* the try block of one loop: primary_function runs while the attempts do not
\* exceed the configuration, and the exhaustion error is raised otherwise; an
\* error the except clause matches goes to the handler, any other one leaves
\* through the finally block
PipelineTry ==
    LET f == pipeline
        number_retry_attempts == Len(f.retry_attempts)
        sleep_config_size == Len(f.sleep_config)
        Route(error) == IF Subclass(error, f.catchable_error) THEN "except" ELSE "finally"
    IN /\ f.pc = "try"
       /\ f.loop <= MaxLoops
       /\ IF number_retry_attempts <= sleep_config_size
          THEN \E outcome \in {"ok"} \cup PrimaryErrors :
                  pipeline' =
                      IF outcome = "ok"
                      THEN [f EXCEPT !.returned_value = [bound |-> TRUE, value |-> <<f.loop>>],
                                     !.retry_attempts = <<>>,
                                     !.pc = "finally",
                                     !.primary = Append(@, [loop |-> f.loop, outcome |-> outcome,
                                                            attempts |-> number_retry_attempts])]
                      ELSE [f EXCEPT !.exc = outcome,
                                     !.pc = Route(outcome),
                                     !.primary = Append(@, [loop |-> f.loop, outcome |-> outcome,
                                                            attempts |-> number_retry_attempts])]
          ELSE pipeline' = [f EXCEPT !.exc = "AdjuftmentsRefreshError",
                                     !.pc = Route("AdjuftmentsRefreshError"),
                                     !.exhausted = IF @ = 0 THEN f.loop ELSE @]
       /\ UNCHANGED <<stores, eng, faults, passes, partner, prevClean, billOf, removed,
                      airtable0, dashboard, accounts, budgets, clean_start>>

\* the except clause: error_index <= number_retry_attempts compares None with
\* an int when error_index was omitted, which raises TypeError in the handler;
\* otherwise _sub_refresh_assist sleeps and records the attempt
PipelineExcept ==
    LET f == pipeline
        slept == time_to_sleep(f.sleep_config, f.retry_attempts)
    IN /\ f.pc = "except"
       /\ pipeline' =
             IF Len(f.error_index) = 0
             THEN [f EXCEPT !.exc = "TypeError", !.pc = "finally"]
             ELSE [f EXCEPT !.retry_attempts = _sub_refresh_assist(f.sleep_config, @),
                            !.slept = IF Len(slept) = 0 THEN @
                                      ELSE Append(@, [loop |-> f.loop,
                                                      k |-> Len(f.retry_attempts),
                                                      time |-> slept[1]]),
                            !.exc = "None",
                            !.pc = "finally"]
       /\ UNCHANGED <<stores, eng, faults, passes, partner, prevClean, billOf, removed,
                      airtable0, dashboard, accounts, budgets, clean_start>>

\* the finally block: finally_function(*returned_value) reads the local whatever
\* the try block did, which raises UnboundLocalError while it was never
\* assigned; then an error still pending leaves the pipeline, and the next loop
\* starts otherwise
PipelineFinally ==
    LET f == pipeline
    IN /\ f.pc = "finally"
       /\ pipeline' =
             IF f.finally_function /\ ~f.returned_value.bound
             THEN [f EXCEPT !.exc = "UnboundLocalError", !.pc = "raised"]
             ELSE [f EXCEPT !.finals = IF f.finally_function
                                       THEN Append(@, [loop |-> f.loop,
                                                       value |-> f.returned_value.value])
                                       ELSE @,
                            !.pc = IF f.exc # "None" THEN "raised" ELSE "try",
                            !.loop = IF f.exc # "None" THEN @ ELSE @ + 1]
       /\ UNCHANGED <<stores, eng, faults, passes, partner, prevClean, billOf, removed,
                      airtable0, dashboard, accounts, budgets, clean_start>>

\* the configurations, the error_index (omitted or given), the errors to catch
\* and the presence of a finally_function the pipeline is started with
SleepConfigs == {<<5>>, <<5, 10>>}

ErrorIndexes == {<<>>, <<0>>, <<1>>}

CatchableErrors == {"BaseException", "Exception", "ConnectionError"}

InitPipeline ==
    /\ airtable = <<>>
    /\ expenses = <<>>
    /\ airtable0 = airtable
    /\ splitwise = [b \in {1} |-> Bill1]
    /\ splitwise_db = [b \in {1} |-> process_expense(Bill1)]
    /\ clock = MaxUpdatedAt(splitwise)
    /\ nextRow = 1
    /\ eng = [w \in Workers |-> IdleEngine]
    /\ faults = 0
    /\ passes = 0
    /\ partner = 0
    /\ prevClean = FALSE
    /\ billOf = [b \in DOMAIN splitwise |-> NoRow]
    /\ removed = {}
    /\ dashboard = NoDashboard
    /\ accounts = DefaultAccounts
    /\ budgets = DefaultBudget
    /\ clean_start = NoCleanStart
    /\ \E sleep_config \in SleepConfigs, error_index \in ErrorIndexes,
          catchable_error \in CatchableErrors, finally_function \in BOOLEAN :
          pipeline = PipelineFrame(sleep_config, error_index, catchable_error, finally_function)

NextPipeline ==
    \/ PipelineTry
    \/ PipelineExcept
    \/ PipelineFinally

SpecPipeline == InitPipeline /\ [][NextPipeline]_vars

\* the last run of primary_function, if it ran in the loop the pipeline is in
LastPrimary == pipeline.primary[Len(pipeline.primary)]

FailedThisLoop ==
    /\ Len(pipeline.primary) > 0
    /\ LastPrimary.loop = pipeline.loop
    /\ LastPrimary.outcome # "ok"

\* C34: a failure of primary_function that the except clause matches, met
\* while fewer than len(sleep_config) consecutive failures are recorded, never
\* leaves the pipeline, with error_index omitted too: once its handler is
\* over the pipeline has slept sleep_config[k] and has not raised.
C34_FailureRetried ==
    /\ FailedThisLoop
    /\ Subclass(LastPrimary.outcome, pipeline.catchable_error)
    /\ LastPrimary.attempts < Len(pipeline.sleep_config)
    /\ ~pipeline.finally_function
    /\ pipeline.pc \in {"finally", "raised"}
    => /\ pipeline.pc = "finally"
       /\ pipeline.exc = "None"
       /\ Len(pipeline.slept) > 0
       /\ pipeline.slept[Len(pipeline.slept)] =
              [loop |-> pipeline.loop, k |-> LastPrimary.attempts,
               time |-> pipeline.sleep_config[LastPrimary.attempts + 1]]

\* C35: once the exhaustion error was raised the pipeline is left with it:
\* no later loop starts, whatever catchable_error is, and primary_function is
\* not run again.
C35_ExhaustedQuits ==
    pipeline.exhausted # 0 =>
        /\ pipeline.loop = pipeline.exhausted
        /\ pipeline.pc = "raised" => pipeline.exc = "AdjuftmentsRefreshError"
        /\ pipeline.pc # "except"
        /\ \A i \in 1..Len(pipeline.primary) : pipeline.primary[i].loop < pipeline.exhausted

\* the part of C35 on primary_function: it is not run after the exhaustion
C35_PrimaryNotRunAgain ==
    pipeline.exhausted # 0 =>
        \A i \in 1..Len(pipeline.primary) : pipeline.primary[i].loop < pipeline.exhausted

\* C36: finally_function is called at most once per loop, with the value
\* primary_function returned in that loop, and the pipeline never fails on a
\* value primary_function has not returned yet.
C36_FinallyGetsThisLoopsValue ==
    /\ \A i \in 1..Len(pipeline.finals) :
          /\ pipeline.finals[i].value = <<pipeline.finals[i].loop>>
          /\ \E j \in 1..Len(pipeline.primary) :
                /\ pipeline.primary[j].loop = pipeline.finals[i].loop
                /\ pipeline.primary[j].outcome = "ok"
          /\ \A j \in 1..Len(pipeline.finals) :
                pipeline.finals[j].loop = pipeline.finals[i].loop => i = j
    /\ pipeline.exc # "UnboundLocalError"

\* the part of C36 on the number of calls: one call per loop at most
C36_OncePerLoop ==
    \A i, j \in 1..Len(pipeline.finals) :
        pipeline.finals[j].loop = pipeline.finals[i].loop => i = j


\* ------------------------------------------------- the accounts' clean start
\* an account of the spreadsheet's accounts table
AccountRow(id, p_type, p_default) == [id |-> id, type |-> p_type, default |-> p_default]

\* the accounts tables the spreadsheet may hold: zero to two Checking accounts,
\* zero to two Savings accounts marked default or not
AccountArrays ==
    {c1 \o c2 \o s1 \o s2 :
        c1 \in {<<>>, <<AccountRow(Checking, "Checking", TRUE)>>,
                <<AccountRow(Checking, "Checking", FALSE)>>},
        c2 \in {<<>>, <<AccountRow("chk2", "Checking", FALSE)>>},
        s1 \in {<<>>, <<AccountRow(Savings, "Savings", TRUE)>>},
        s2 \in {<<>>, <<AccountRow(OtherSavings, "Savings", TRUE)>>,
                <<AccountRow(OtherSavings, "Savings", FALSE)>>}}

\* the accounts of type Checking, as the loop of _clean_start_accounts_data
\* collects them
checking_accounts_DefaultOnly(data_array) ==
    LET IsChecking(data_value) == data_value.type = "Checking" /\ data_value.default
    IN SelectSeq(data_array, IsChecking)

checking_accounts(data_array) ==
    LET IsChecking(data_value) == data_value.type = "Checking"
    IN SelectSeq(data_array, IsChecking)

\* the accounts of the elif branch: not Checking, default and of type Savings
savings_default(data_array) ==
    LET IsDefault(data_value) ==
            /\ data_value.type # "Checking"
            /\ data_value.default = TRUE /\ data_value.type = "Savings"
    IN SelectSeq(data_array, IsDefault)

\* _load_db_data over the records that were posted
LoadAccounts(data_array, loaded) ==
    [id \in {data_array[i].id : i \in 1..loaded} |->
        LET data_value == data_array[CHOOSE i \in 1..loaded : data_array[i].id = id]
        IN AccountRecord(data_value.type, 0, data_value.default)]

\* a clean start as far as the accounts: _build_database(drop_all=True)
\* empties the table, _clean_start_accounts_data reads the spreadsheet's
\* accounts, asserts one default Savings and one Checking account, and posts
\* the records one by one; the read and every post can fail
CleanStartAccounts ==
    \E data_array \in AccountArrays, status_code \in {200, 500} :
        \E loaded \in 0..Len(data_array) :
            LET fault == status_code # 200 \/ loaded < Len(data_array)
                configured == /\ Len(savings_default(data_array)) = 1
                              /\ Len(checking_accounts(data_array)) = 1
            IN /\ fault => faults < MaxFaults
               /\ status_code # 200 => loaded = Len(data_array)
               /\ status_code = 200 /\ ~configured => loaded = Len(data_array)
               /\ faults' = IF fault THEN faults + 1 ELSE faults
               /\ IF status_code # 200
                  THEN /\ accounts' = <<>>
                       /\ clean_start' = [kind |-> "raise", error |-> "response",
                                          data_array |-> data_array]
                  ELSE IF ~configured
                  THEN /\ accounts' = <<>>
                       /\ clean_start' = [kind |-> "raise", error |-> "default accounts",
                                          data_array |-> data_array]
                  ELSE /\ accounts' = LoadAccounts(data_array, loaded)
                       /\ clean_start' = [kind |-> IF fault THEN "raise" ELSE "ok",
                                          error |-> IF fault THEN "response" ELSE "None",
                                          data_array |-> data_array]
    /\ UNCHANGED <<stores, eng, passes, partner, prevClean, billOf, removed,
                   airtable0, dashboard, budgets, pipeline>>

InitSetup == InitLedger(<<>>, DefaultBudget)

NextSetup == CleanStartAccounts

SpecSetup == InitSetup /\ [][NextSetup]_vars

\* the Checking accounts and the default Savings accounts of an accounts table
CheckingOf(data_array) ==
    {i \in 1..Len(data_array) : data_array[i].type = "Checking"}

DefaultSavingsOf(data_array) ==
    {i \in 1..Len(data_array) : data_array[i].type = "Savings" /\ data_array[i].default}

\* C32: a clean start over an accounts table without exactly one Checking
\* account and exactly one default Savings account raises the configuration
\* error and leaves the internal accounts table empty; a clean start that
\* succeeds leaves exactly one of each in the internal store.
C32_AmbiguousAccountsRejected ==
    /\ /\ clean_start.kind # "none"
       /\ clean_start.error # "response"
       /\ ~(/\ Cardinality(CheckingOf(clean_start.data_array)) = 1
            /\ Cardinality(DefaultSavingsOf(clean_start.data_array)) = 1)
       => /\ clean_start.kind = "raise"
          /\ clean_start.error = "default accounts"
          /\ DOMAIN accounts = {}
    /\ clean_start.kind = "ok" =>
          /\ Cardinality({a \in DOMAIN accounts : accounts[a].type = "Checking"}) = 1
          /\ Cardinality({a \in DOMAIN accounts :
                             accounts[a].type = "Savings" /\ accounts[a].default}) = 1

\* a clean start met two Checking accounts, one of them not marked default,
\* beside one default Savings account, and raised
C32_Witness ==
    /\ clean_start.kind = "raise"
    /\ clean_start.error = "default accounts"
    /\ Cardinality(CheckingOf(clean_start.data_array)) = 2
    /\ Cardinality(DefaultSavingsOf(clean_start.data_array)) = 1
    /\ DOMAIN accounts = {}


\* the rows of a table that carry a bill's id
RowsOfBill(table, bill) == {i \in DOMAIN table : table[i].splitwise_id = bill}

\* C37: whatever passes ran, and however often a bill was changed in the
\* service and fetched again, at most one spreadsheet row and at most one
\* internal ledger row carry a given splitwise_id.
C37_OneRowPerBill ==
    \A bill \in DOMAIN splitwise :
        /\ Cardinality(RowsOfBill(airtable, bill)) <= 1
        /\ Cardinality(RowsOfBill(expenses, bill)) <= 1


\* the bill intake run pass after pass: a pass that can take a step takes it,
\* a failed pass is followed by the next scheduled one
SpecBalanceLive == InitBalance /\ [][NextBalance]_vars /\ WF_vars(NextBalance)

\* a bill-intake pass failed after it stored the fetched record of the bill in
\* the internal store, and another pass is still to come
FailedAfterStore(bill) ==
    /\ eng[1].pc = "failed"
    /\ eng[1].kind = "splitwise"
    /\ passes < MaxPasses
    /\ bill \in DOMAIN splitwise
    /\ bill \in DOMAIN splitwise_db
    /\ splitwise_db[bill].updated_at = splitwise[bill].updated_at
    /\ \E i \in 1..Len(eng[1].recent) : eng[1].recent[i].id = bill

\* the bill's manifest item is applied: an active bill that is no payment has
\* a row in the spreadsheet or the internal ledger, a deleted bill has none
Applied(bill) ==
    /\ bill \in DOMAIN splitwise
    /\ IF splitwise[bill].deleted
       THEN RowsOfBill(airtable, bill) = {} /\ RowsOfBill(expenses, bill) = {}
       ELSE splitwise[bill].payment
            \/ RowsOfBill(airtable, bill) \cup RowsOfBill(expenses, bill) # {}

\* C38: a bill whose record a failed pass stored without applying its
\* manifest item is made up for by the passes that follow: eventually an
\* active non-payment bill has its row and a deleted bill's row is removed.
C38_FailedPassMadeUp ==
    \A bill \in 1..MaxBills : FailedAfterStore(bill) ~> Applied(bill)


\* ------------------------------------------- the dashboard's publication
\* Dashboard.run_dashboard up to the processed dictionary: the cascade, the
\* figures, the splitwise balance the caller supplied, the formats
run_dashboard(expense_df, p_accounts, now, budget, final, splitwise_balance) ==
    LET balanced == balance_df(expense_df, p_accounts)
        prepared == IF balanced.kind = "raise" THEN Result("raise", <<>>)
                    ELSE _get_dashboard_dict(balanced.value, p_accounts, now, budget, final)
    IN [balanced |-> balanced,
        kind |-> prepared.kind,
        processed |->
            IF prepared.kind = "raise" THEN <<>>
            ELSE _process_dashboard_dict(
                     IF splitwise_balance = NoBill THEN prepared.value
                     ELSE prepared.value
                          @@ [splitwise_balance |-> Ratio(splitwise_balance, 1)])]

\* the keys of DashboardConfig.DICT_TO_DASHBOARD, in its order
DICT_TO_DASHBOARD ==
    <<"amount_under_budget", "checking_balance", "amount_to_save", "amount_budget_left",
      "resulting_savings", "monthly_expenses", "monthly_savings", "total_savings",
      "net_worth", "splitwise_balance", "total_reimbursement", "current_budget",
      "monthly_income", "potential_savings", "percent_budget_left",
      "percent_through_month", "percent_budget_spent", "home_balance",
      "miscellaneous_balance", "shared_balance", "planned_budget", "adjusted_budget",
      "date_updated", "final_expense_record">>

\* Dashboard._unload_dashboard_dict_to_manifest: the measures the internal
\* table has no row of (no id yet) or another value of
_unload_dashboard_dict_to_manifest(dashboard_dict, table) ==
    LET Changed(measure) ==
            /\ measure \in DOMAIN dashboard_dict
            /\ \/ measure \notin DOMAIN table
               \/ table[measure] # dashboard_dict[measure]
        listed == SelectSeq(DICT_TO_DASHBOARD, Changed)
    IN [k \in 1..Len(listed) |->
          [id |-> IF listed[k] \in DOMAIN table THEN <<listed[k]>> ELSE <<>>,
           measure |-> listed[k], value |-> dashboard_dict[listed[k]]]]

\* the values of the first items of a manifest
ValuesOf(manifest, items) ==
    [measure \in {manifest[k].measure : k \in items} |->
        manifest[CHOOSE k \in items : manifest[k].measure = measure].value]

\* Dashboard._unload_manifest_to_database over the items it got through: each
\* is merged and committed on its own; an item without id is inserted in the
\* spreadsheet first.  <<internal table, spreadsheet>>
_unload_manifest_to_database(manifest, committed, table, sheet) ==
    <<ValuesOf(manifest, 1..committed) @@ table,
      ValuesOf(manifest, {k \in 1..committed : manifest[k].id = <<>>}) @@ sheet>>

\* POST of the dashboard refresh call by call, any of which may fail:
\* run_dashboard stores the account balances and commits the manifest item by
\* item to the internal table, then the handler updates the spreadsheet record
\* by record.  committed and updated are the items each loop got through.
refresh_dashboard ==
    /\ Quiet
    /\ passes < MaxPasses
    /\ passes' = passes + 1
    /\ \E updated_data \in BOOLEAN, now \in Nows, order \in Orders(CleanRows(expenses)),
          splitwise_balance \in {NoBill, 20000},
          final \in IF DOMAIN expenses = {} THEN {<<>>}
                    ELSE {<<expenses[i]>> : i \in LatestRows(expenses)} :
          \E expense_df \in {[k \in DOMAIN order |-> CleanRows(expenses)[order[k]]]} :
          \E ran \in {run_dashboard(expense_df, accounts, now, budgets, final,
                                    splitwise_balance)} :
          \E manifest \in {_unload_dashboard_dict_to_manifest(ran.processed,
                                                              dashboard.table)} :
          \E committed \in 0..Len(manifest), updated \in 0..Len(manifest) :
          \E unloaded \in {_unload_manifest_to_database(manifest, committed,
                                                        dashboard.table, dashboard.sheet)} :
             LET fault == committed < Len(manifest) \/ updated < Len(manifest)
                 failed == ran.kind = "raise" \/ fault
             IN /\ committed < Len(manifest) => updated = 0
                /\ fault => faults < MaxFaults
                /\ faults' = IF fault THEN faults + 1 ELSE faults
                /\ accounts' =
                     IF ran.balanced.kind = "ok" /\ updated_data
                     THEN [a \in DOMAIN accounts |->
                             [accounts[a] EXCEPT
                                 !.balance = ran.balanced.value.account_balances[a]]]
                     ELSE accounts
                /\ dashboard' =
                     [dashboard EXCEPT
                        !.table = unloaded[1],
                        !.sheet = ValuesOf(manifest, 1..updated) @@ unloaded[2],
                        !.publish = [last |-> IF failed THEN "failed" ELSE "ok",
                                     published |-> IF failed THEN @.published
                                                   ELSE unloaded[1],
                                     manifest |-> manifest,
                                     committed |-> committed,
                                     updated |-> updated]]
    /\ UNCHANGED <<stores, eng, partner, prevClean, billOf, removed,
                   airtable0, budgets, pipeline, clean_start>>

\* a ledger of one row whose dashboard an earlier refresh published in full
PublishRows ==
    {r \in MonthRows : r.amount = 100000 /\ r.date = ThisMonth}

PublishedDashboard(row) ==
    LET ran == run_dashboard(<<row>>, DefaultAccounts, Today, DefaultBudget, <<row>>, NoBill)
    IN [NoDashboard EXCEPT !.table = ran.processed, !.sheet = ran.processed,
                           !.publish = [@ EXCEPT !.last = "ok", !.published = ran.processed]]

InitPublish ==
    \E r1 \in PublishRows :
        /\ run_dashboard(<<r1>>, DefaultAccounts, Today, DefaultBudget, <<r1>>, NoBill).kind = "ok"
        /\ airtable = [i \in {1} |-> r1]
        /\ expenses = airtable
        /\ airtable0 = airtable
        /\ splitwise = [b \in {1} |-> Bill1]
        /\ splitwise_db = [b \in {1} |-> process_expense(Bill1)]
        /\ clock = MaxUpdatedAt(splitwise)
        /\ nextRow = 4
        /\ eng = [w \in Workers |-> IdleEngine]
        /\ faults = 0
        /\ passes = 0
        /\ partner = 0
        /\ prevClean = FALSE
        /\ billOf = [b \in DOMAIN splitwise |-> NoRow]
        /\ removed = {}
        /\ dashboard = PublishedDashboard(r1)
        /\ accounts = DefaultAccounts
        /\ budgets = DefaultBudget
        /\ pipeline = NoPipeline
        /\ clean_start = NoCleanStart

NextPublish == refresh_dashboard

SpecPublish == InitPublish /\ [][NextPublish]_vars

\* C33: after a refresh that failed, the measures of the internal table and of
\* the spreadsheet are those of the last refresh that completed: no measure of
\* the failed pass is in either.
C33_FailedRefreshKeepsFigures ==
    dashboard.publish.last = "failed" =>
        /\ dashboard.table = dashboard.publish.published
        /\ dashboard.sheet = dashboard.publish.published

\* C40: after a refresh that completed, every measure has the same value in
\* the spreadsheet as in the internal table, also when the refresh before
\* it failed between the commits and the spreadsheet's updates.
C40_CompletedRefreshAgrees ==
    dashboard.publish.last = "ok" =>
        \A measure \in DOMAIN dashboard.table :
            /\ measure \in DOMAIN dashboard.sheet
            /\ dashboard.sheet[measure] = dashboard.table[measure]

====
